------------------------------ MODULE IndexSet ------------------------------
(***************************************************************************)
(* IndexSet as it is stored: ranges <<first, end>> in ascending order, kept *)
(* in chunks of at most MaxSize ranges; every chunk caches where it begins  *)
(* and ends and how many indexes it holds.  An iterator is the place        *)
(* <<chunk, range>>; a method that returns one returns it with the chunks.  *)
(* The state is one set, changed by the calls of its methods.               *)
(***************************************************************************)
EXTENDS Integers, Sequences, SequencesExt, FiniteSetsExt

CONSTANTS MaxSize,   \* ranges in a chunk
          MaxIndex,  \* bound: the indexes are below it
          MaxArg     \* bound: the indexes of a set that is passed

ASSUME IndexAssumption ==
    /\ MaxSize \in Nat /\ MaxSize >= 2 /\ MaxSize % 2 = 0
    /\ MaxIndex \in Nat \ {0} /\ MaxArg \in 0..MaxIndex

VARIABLE m_data

S == INSTANCE IndexSets

Args == SUBSET (0 .. MaxArg - 1)

Length(range) == range[2] - range[1]

\* The indexes that the chunks hold, and the sequence an IndexIterator runs
\* through.
Indexes(d) ==
    UNION {d[p[1]].data[p[2]][1] .. d[p[1]].data[p[2]][2] - 1 :
              p \in UNION {{o} \X DOMAIN d[o].data : o \in DOMAIN d}}

as_indexes(s) ==
    [i \in 1 .. Cardinality(s) |->
       CHOOSE x \in s : Cardinality({y \in s : y < x}) = i - 1]
-----------------------------------------------------------------------------
(* Iterators *)

begin == <<1, 1>>
end(d) == <<Len(d) + 1, 1>>
Valid(d, it) == it[1] <= Len(d)
deref(d, it) == d[it[1]].data[it[2]]

next(d, it) ==
    IF it[2] < Len(d[it[1]].data) THEN <<it[1], it[2] + 1>>
    ELSE <<it[1] + 1, 1>>

prev(d, it) ==
    IF it[2] > 1 THEN <<it[1], it[2] - 1>>
    ELSE <<it[1] - 1, Len(d[it[1] - 1].data)>>

AtEndOfChunk(d, it) == it[2] = Len(d[it[1]].data)

set(d, it, front, back) ==
    [d EXCEPT ![it[1]] =
        [data |-> ReplaceAt(@.data, it[2], <<front, back>>),
         begin |-> IF it[2] = 1 THEN front ELSE @.begin,
         end |-> IF AtEndOfChunk(d, it) THEN back ELSE @.end,
         count |-> @.count - Length(deref(d, it)) + (back - front)]]

adjust(d, it, front, back) ==
    set(d, it, deref(d, it)[1] + front, deref(d, it)[2] + back)

ShiftRanges(ranges, n) ==
    [i \in DOMAIN ranges |-> <<ranges[i][1] + n, ranges[i][2] + n>>]

\* shift, called for every range from it on.
shift_from(d, it, n) ==
    LET Shifted(c, i) ==
           [data |-> SubSeq(c.data, 1, i - 1)
                        \o ShiftRanges(SubSeq(c.data, i, Len(c.data)), n),
            begin |-> IF i = 1 THEN c.begin + n ELSE c.begin,
            end |-> c.end + n, count |-> c.count]
    IN  IF ~Valid(d, it) THEN d
        ELSE SubSeq(d, 1, it[1] - 1) \o <<Shifted(d[it[1]], it[2])>>
                \o [o \in 1 .. Len(d) - it[1] |-> Shifted(d[it[1] + o], 1)]
-----------------------------------------------------------------------------
(* ChunkedRangeVector *)

NewChunk(range) ==
    [data |-> <<range>>, begin |-> range[1], end |-> range[2],
     count |-> Length(range)]

push_back(d, range) ==
    IF d # <<>> /\ Len(Last(d).data) < MaxSize
    THEN [d EXCEPT ![Len(d)] =
             [data |-> Append(@.data, range), begin |-> @.begin,
              end |-> range[2], count |-> @.count + Length(range)]]
    ELSE Append(d, NewChunk(range))

Lengths(data, is) == MapThenSumSet(LAMBDA i : Length(data[i]), is)

\* A full chunk is split in half to make space.
ensure_space(d, it) ==
    LET chunk == d[it[1]]
        half == MaxSize \div 2
        moved == SubSeq(chunk.data, half + 1, MaxSize)
        moved_count == Lengths(moved, DOMAIN moved)
        split == [data |-> SubSeq(chunk.data, 1, half), begin |-> chunk.begin,
                  end |-> chunk.data[half][2],
                  count |-> chunk.count - moved_count]
        rest == [data |-> moved, begin |-> moved[1][1],
                 end |-> Last(moved)[2], count |-> moved_count]
    IN  IF Len(chunk.data) < MaxSize THEN [d |-> d, it |-> it]
        ELSE [d |-> SubSeq(d, 1, it[1] - 1) \o <<split, rest>>
                       \o SubSeq(d, it[1] + 1, Len(d)),
              it |-> IF it[2] > half THEN <<it[1] + 1, it[2] - half>> ELSE it]

insert(d, it, range) ==
    IF ~Valid(d, it)
    THEN LET pushed == push_back(d, range)
         IN  [d |-> pushed, it |-> prev(pushed, end(pushed))]
    ELSE LET room == ensure_space(d, it)
         IN  [d |-> [room.d EXCEPT ![room.it[1]] =
                        [data |-> InsertAt(@.data, room.it[2], range),
                         begin |-> Min({@.begin, range[1]}),
                         end |-> Max({@.end, range[2]}),
                         count |-> @.count + Length(range)]],
              it |-> room.it]

erase(d, it) ==
    LET chunk == d[it[1]]
        left == RemoveAt(chunk.data, it[2])
    IN  IF left = <<>> THEN [d |-> RemoveAt(d, it[1]), it |-> <<it[1], 1>>]
        ELSE [d |-> [d EXCEPT ![it[1]] =
                        [data |-> left, begin |-> left[1][1],
                         end |-> Last(left)[2],
                         count |-> @.count - Length(deref(d, it))]],
              it |-> IF it[2] <= Len(left) THEN it ELSE <<it[1] + 1, 1>>]

\* ChunkedRangeVectorBuilder.  A chunk is added to those reserved for the
\* ranges of d when they are full; the range that goes there is counted as one
\* index.
builder(d) ==
    [done |-> <<>>, data |-> <<>>, count |-> 0,
     reserved |-> MapThenSumSet(LAMBDA o : Len(d[o].data), DOMAIN d)
                     \div MaxSize + 1]

\* The chunk being built, once it is closed.
Close(b) ==
    IF b.data = <<>> THEN b.done
    ELSE Append(b.done, [data |-> b.data, begin |-> b.data[1][1],
                         end |-> Last(b.data)[2], count |-> b.count])

builder_push_back(b, range) ==
    IF b.data # <<>> /\ range[1] = Last(b.data)[2]
    THEN [b EXCEPT !.data[Len(b.data)][2] = range[2],
                   !.count = @ + Length(range)]
    ELSE IF Len(b.data) < MaxSize
    THEN [b EXCEPT !.data = Append(@, range), !.count = @ + Length(range)]
    ELSE [b EXCEPT !.done = Close(b), !.data = <<range>>,
                   !.count = IF Len(b.done) + 1 >= b.reserved THEN 1
                             ELSE Length(range)]

PushIndex(b, index) == builder_push_back(b, <<index, index + 1>>)
-----------------------------------------------------------------------------
(* Looking up *)

\* The first range, from it on, that ends after the index.
find(d, index, it) ==
    LET os == {o \in DOMAIN d : o >= it[1] /\ d[o].end > index}
        o == Min(os)
        from == IF o = it[1] THEN it[2] ELSE 1
    IN  IF os = {} THEN end(d)
        ELSE IF index < d[o].begin THEN <<o, 1>>
        ELSE <<o, Min({i \in from .. Len(d[o].data) :
                          d[o].data[i][2] > index})>>

contains(d, index) ==
    LET it == find(d, index, begin)
    IN  Valid(d, it) /\ deref(d, it)[1] <= index

\* Whole chunks up to the last index, then whole ranges, then what is left.
CountOn(d, it, last) ==
    LET os == {o \in it[1] .. Len(d) : d[o].end <= last}
        o == it[1] + Cardinality(os)
        is == {i \in DOMAIN d[o].data : d[o].data[i][2] <= last}
        i == Cardinality(is) + 1
    IN  MapThenSumSet(LAMBDA c : d[c].count, os)
           + IF o > Len(d) THEN 0
             ELSE Lengths(d[o].data, is)
                     + IF i <= Len(d[o].data) /\ d[o].data[i][1] < last
                       THEN last - d[o].data[i][1] ELSE 0

count(d, first, last) ==
    LET it == find(d, first, begin)
        range == deref(d, it)
        is == {i \in it[2] + 1 .. Len(d[it[1]].data) :
                  d[it[1]].data[i][2] < last}
        i == it[2] + Cardinality(is) + 1
        jt == IF i > Len(d[it[1]].data) THEN <<it[1] + 1, 1>> ELSE <<it[1], i>>
        part == range[2] - Max({range[1], first}) + Lengths(d[it[1]].data, is)
        tail == IF Valid(d, jt) /\ jt[2] # 1 /\ deref(d, jt)[1] < last
                THEN last - deref(d, jt)[1] ELSE 0
    IN  IF ~Valid(d, it) \/ range[1] >= last THEN 0
        ELSE IF range[2] >= last
        THEN last - Max({range[1], first})
        ELSE IF first <= range[1] /\ it[2] = 1 THEN CountOn(d, it, last)
        ELSE IF ~Valid(d, jt) \/ deref(d, jt)[2] >= last THEN part + tail
        ELSE part + tail + CountOn(d, jt, last)

RECURSIVE shift_by(_, _, _)
shift_by(d, it, index) ==
    IF Valid(d, it) /\ deref(d, it)[1] <= index
    THEN shift_by(d, next(d, it), index + Length(deref(d, it)))
    ELSE [it |-> it, index |-> index]

shift(d, index) == shift_by(d, begin, index).index

unshift(d, index) == index - count(d, 0, index)
-----------------------------------------------------------------------------
(* Adding *)

do_add(d, it, index) ==
    IF Valid(d, it) /\ deref(d, it)[1] <= index /\ index < deref(d, it)[2]
    THEN [d |-> d, it |-> it]
    ELSE IF it # begin /\ deref(d, prev(d, it))[2] = index
    THEN IF Valid(d, it) /\ deref(d, it)[1] = index + 1
         THEN LET joined == adjust(d, prev(d, it), 0,
                                   1 + Length(deref(d, it)))
                  gone == erase(joined, it)
              IN  [d |-> gone.d, it |-> prev(gone.d, gone.it)]
         ELSE [d |-> adjust(d, prev(d, it), 0, 1), it |-> prev(d, it)]
    ELSE IF Valid(d, it) /\ deref(d, it)[1] = index + 1
    THEN [d |-> adjust(d, it, -1, 0), it |-> it]
    ELSE insert(d, it, <<index, index + 1>>)

add(d, index) == do_add(d, find(d, index, begin), index).d

add_set(d, s) ==
    FoldLeft(LAMBDA r, index : do_add(r.d, find(r.d, index, r.it), index),
             [d |-> d, it |-> begin], as_indexes(s)).d

RECURSIVE SkipChunks(_, _, _)
SkipChunks(d, o, index) ==
    IF o <= Len(d) /\ d[o].end <= index
    THEN SkipChunks(d, o + 1, index + d[o].count)
    ELSE shift_by(d, <<o, 1>>, index)

add_shifted(d, index) ==
    LET place == SkipChunks(d, 1, index)
    IN  [d |-> do_add(d, place.it, place.index).d, index |-> place.index]

\* set(len), which begins with clear().
set_length(len) == IF len = 0 THEN <<>> ELSE push_back(<<>>, <<0, len>>)

RECURSIVE AddRange(_, _, _)
AddRange(r, index, n) ==
    IF n = 0 THEN r.d
    ELSE LET added == do_add(r.d, r.it, index)
         IN  AddRange([d |-> added.d, it |-> next(added.d, added.it)],
                      index + 1, n - 1)

insert_at(d, index, n) ==
    LET it == find(d, index, begin)
    IN  IF Valid(d, it) /\ deref(d, it)[1] <= index
        THEN shift_from(adjust(d, it, 0, n), next(d, it), n)
        ELSE AddRange([d |-> shift_from(d, it, n), it |-> it], index, n)

\* Mutant of shift_for_insert_at: a range around the index is not split.
shift_for_insert_atWhole(d, index, n) ==
    LET it == find(d, index, begin)
    IN  IF ~Valid(d, it) THEN d ELSE shift_from(d, it, n)

shift_for_insert_at(d, index, n) ==
    LET it == find(d, index, begin)
        shifted == shift_from(d, it, n)
        range == deref(shifted, it)
    IN  IF ~Valid(d, it) THEN d
        ELSE IF range[1] < index + n
        THEN insert(set(shifted, it, range[1] - n, index),
                    next(shifted, it), <<index + n, range[2]>>).d
        ELSE shifted
-----------------------------------------------------------------------------
(* Erasing *)

do_erase(d, it, index) ==
    LET range == deref(d, it)
        gone == erase(d, it)
    IN  IF range[1] <= index
        THEN IF Length(range) = 1 THEN shift_from(gone.d, gone.it, -1)
             ELSE shift_from(adjust(d, it, 0, -1), next(d, it), -1)
        ELSE IF it # begin /\ deref(d, prev(d, it))[2] + 1 = range[1]
        THEN LET joined == erase(adjust(d, prev(d, it), 0, Length(range)), it)
             IN  shift_from(joined.d, joined.it, -1)
        ELSE shift_from(d, it, -1)

erase_at(d, index) ==
    LET it == find(d, index, begin)
    IN  IF Valid(d, it) THEN do_erase(d, it, index) ELSE d

erase_or_unshift(d, index) ==
    LET os == {o \in DOMAIN d : d[o].end <= index}
        o == Cardinality(os) + 1
        is == {i \in DOMAIN d[o].data : d[o].data[i][2] <= index}
        it == <<o, Cardinality(is) + 1>>
        chunks == MapThenSumSet(LAMBDA c : d[c].count, os)
    IN  IF o > Len(d) THEN [d |-> d, index |-> index - chunks]
        ELSE [d |-> do_erase(d, it, index),
              index |-> IF deref(d, it)[1] <= index THEN S!npos
                        ELSE index - chunks - Lengths(d[o].data, is)]

RECURSIVE do_remove(_, _, _, _)
do_remove(d, from, first, last) ==
    LET it == find(d, first, from)
        range == deref(d, it)
        f == Max({range[1], first})
    IN  IF ~Valid(d, it) \/ range[1] >= last THEN [d |-> d, it |-> it]
        ELSE IF range[1] < f /\ range[2] > last
        THEN LET cut == set(d, it, range[1], f)
                 put == insert(cut, next(cut, it), <<last, range[2]>>)
             IN  do_remove(put.d, prev(put.d, put.it), f, last)
        ELSE IF f = range[1] /\ last >= range[2]
        THEN LET gone == erase(d, it) IN do_remove(gone.d, gone.it, f, last)
        ELSE IF f = range[1]
        THEN do_remove(set(d, it, last, range[2]), it, f, last)
        ELSE do_remove(set(d, it, range[1], f), it, f, last)

remove(d, index, n) ==
    do_remove(d, find(d, index, begin), index, index + n).d

\* The ranges of an IndexSet, in order.
RangesOf(s) ==
    LET firsts == {x \in s : x - 1 \notin s}
    IN  [i \in 1 .. Cardinality(firsts) |->
           LET f == as_indexes(firsts)[i]
           IN  <<f, Min({x \in f .. MaxIndex + 1 : x \notin s})>>]

RECURSIVE RemoveRanges(_, _, _)
RemoveRanges(d, it, ranges) ==
    IF ranges = <<>> THEN d
    ELSE LET r == do_remove(d, it, Head(ranges)[1], Head(ranges)[2])
         IN  IF ~Valid(r.d, r.it) THEN r.d
             ELSE RemoveRanges(r.d, r.it, Tail(ranges))

remove_set(d, s) == RemoveRanges(d, begin, RangesOf(s))
-----------------------------------------------------------------------------
(* Whole sets: both are run through side by side *)

RECURSIVE InsertLoop(_, _, _, _)
InsertLoop(b, xs, ys, n) ==
    IF xs = <<>> THEN FoldLeft(PushIndex, b, ys)
    ELSE IF ys # <<>> /\ Head(xs) + n >= Head(ys)
    THEN InsertLoop(PushIndex(b, Head(ys)), xs, Tail(ys), n + 1)
    ELSE InsertLoop(PushIndex(b, Head(xs) + n), Tail(xs), ys, n)

insert_at_set(d, s) ==
    IF s = {} THEN d
    ELSE IF d = <<>> THEN add_set(<<>>, s)
    ELSE Close(InsertLoop(builder(d), as_indexes(Indexes(d)),
                          as_indexes(s), 0))

RECURSIVE ShiftLoop(_, _, _, _)
ShiftLoop(b, xs, ys, n) ==
    IF xs = <<>> THEN b
    ELSE IF ys # <<>> /\ Head(xs) + n >= Head(ys)
    THEN ShiftLoop(b, xs, Tail(ys), n + 1)
    ELSE ShiftLoop(PushIndex(b, Head(xs) + n), Tail(xs), ys, n)

shift_for_insert_at_set(d, s) ==
    IF d = <<>> \/ s = {} \/ Min(s) >= Last(d).end THEN d
    ELSE Close(ShiftLoop(builder(d), as_indexes(Indexes(d)),
                         as_indexes(s), 0))

RECURSIVE EraseLoop(_, _, _, _)
EraseLoop(b, xs, ys, n) ==
    IF xs = <<>> THEN b
    ELSE IF ys = <<>> \/ Head(xs) < Head(ys)
    THEN EraseLoop(PushIndex(b, Head(xs) - n), Tail(xs), ys, n)
    ELSE EraseLoop(b, IF Head(xs) = Head(ys) THEN Tail(xs) ELSE xs, Tail(ys),
                   n + 1)

erase_at_set(d, s) ==
    IF d = <<>> \/ s = {} THEN d
    ELSE Close(EraseLoop(builder(d), as_indexes(Indexes(d)),
                         as_indexes(s), 0))

\* The ranges of this set, from it on, that begin at or before the index are
\* copied first.
RECURSIVE CopyUpTo(_, _, _, _)
CopyUpTo(d, r, index, new_shift) ==
    IF Valid(d, r.it) /\ deref(d, r.it)[1] <= index - new_shift + r.shift
    THEN CopyUpTo(d, [b |-> FoldLeft(PushIndex, r.b,
                                     [i \in 1 .. Length(deref(d, r.it)) |->
                                        deref(d, r.it)[1] + i - 1]),
                      it |-> next(d, r.it),
                      shift |-> r.shift + Length(deref(d, r.it))],
                  index, new_shift)
    ELSE r

RECURSIVE CopyRest(_, _, _)
CopyRest(d, b, it) ==
    IF ~Valid(d, it) THEN b
    ELSE CopyRest(d, builder_push_back(b, deref(d, it)), next(d, it))

add_shifted_by(d, shifted_by, values) ==
    LET Step(r, index) ==
           IF index \in shifted_by THEN r
           ELSE LET new_shift == Cardinality({x \in shifted_by : x < index})
                    copied == CopyUpTo(d, r, index, new_shift)
                IN  [copied EXCEPT !.b = PushIndex(@, index - new_shift
                                                         + copied.shift)]
        added == FoldLeft(Step, [b |-> builder(d), it |-> begin, shift |-> 0],
                          as_indexes(values))
    IN  IF values = {} THEN d
        ELSE Close(CopyRest(d, added.b, added.it))
-----------------------------------------------------------------------------
IndexInit == m_data = <<>>

\* A call leaves d.
Becomes(d) == m_data' = d /\ \A x \in Indexes(d) : x < MaxIndex

CallOfIndex(i) ==
    \/ Becomes(add(m_data, i))
    \/ Becomes(add_shifted(m_data, i).d)
    \/ Becomes(erase_at(m_data, i))
    \/ Becomes(erase_or_unshift(m_data, i).d)
    \/ Becomes(set_length(i))
    \/ \E n \in {1, 2} :
          \/ Becomes(insert_at(m_data, i, n))
          \/ Becomes(shift_for_insert_at(m_data, i, n))
          \/ Becomes(remove(m_data, i, n))

CallOfSet(s) ==
    \/ Becomes(add_set(m_data, s))
    \/ Becomes(insert_at_set(m_data, s))
    \/ Becomes(shift_for_insert_at_set(m_data, s))
    \/ Becomes(erase_at_set(m_data, s))
    \/ Becomes(remove_set(m_data, s))
    \/ \E by \in Args : Becomes(add_shifted_by(m_data, by, s))

IndexNext ==
    \/ \E i \in 0 .. MaxIndex - 1 : CallOfIndex(i)
    \/ \E s \in Args : CallOfSet(s)
-----------------------------------------------------------------------------
(* Properties *)

Ranges == {r \in (0..MaxIndex) \X (0..MaxIndex) : r[1] < r[2]}

\* The chunks are what ChunkedRangeVector::verify says of them: none is empty
\* or too long, the ranges ascend and none touches the next, and every chunk's
\* begin, end and count are those of its ranges.
Verified ==
    /\ \A o \in DOMAIN m_data :
          LET c == m_data[o]
          IN  /\ c.data \in Seq(Ranges) /\ Len(c.data) \in 1..MaxSize
              /\ c.begin = c.data[1][1] /\ c.end = Last(c.data)[2]
              /\ c.count = Lengths(c.data, DOMAIN c.data)
    /\ LET rs == FlattenSeq([o \in DOMAIN m_data |-> m_data[o].data])
       IN  \A i \in 2 .. Len(rs) : rs[i - 1][2] < rs[i][1]

\* A call for one index leaves the set that index_set.hpp says, and answers
\* what it says, however the indexes are spread over ranges and chunks.
IndexCallsAreRight ==
    LET s == Indexes(m_data)
    IN  \A i \in 0 .. MaxIndex :
           /\ contains(m_data, i) <=> i \in s
           /\ shift(m_data, i) = S!shift(s, i)
           /\ i \notin s => unshift(m_data, i) = S!unshift(s, i)
           /\ Indexes(add(m_data, i)) = s \cup {i}
           /\ LET added == add_shifted(m_data, i)
              IN  /\ added.index = S!shift(s, i)
                  /\ Indexes(added.d) = s \cup {added.index}
           /\ Indexes(erase_at(m_data, i)) = S!erase_at(s, i)
           /\ LET erased == erase_or_unshift(m_data, i)
              IN  /\ Indexes(erased.d) = S!erase_at(s, i)
                  /\ erased.index = IF i \in s THEN S!npos
                                    ELSE S!unshift(s, i)
           /\ \A n \in {1, 2} :
                 /\ Indexes(insert_at(m_data, i, n)) = S!insert_at(s, i, n)
                 /\ Indexes(shift_for_insert_at(m_data, i, n))
                       = S!shift_for_insert_at(s, i, n)
                 /\ Indexes(remove(m_data, i, n)) = s \ (i .. i + n - 1)

\* So does a call for a set of indexes.
SetCallsAreRight ==
    LET s == Indexes(m_data)
    IN  \A t \in Args :
           /\ Indexes(add_set(m_data, t)) = s \cup t
           /\ Indexes(remove_set(m_data, t)) = s \ t
           /\ Indexes(insert_at_set(m_data, t)) = S!insert_at_set(s, t)
           /\ Indexes(shift_for_insert_at_set(m_data, t))
                 = S!shift_for_insert_at_set(s, t)
           /\ Indexes(erase_at_set(m_data, t)) = S!erase_at_set(s, t)
           /\ \A by \in Args :
                 Indexes(add_shifted_by(m_data, by, t))
                    = S!add_shifted_by(s, by, t)
=============================================================================
