-------------------------- MODULE CommandLoopProofs --------------------------
(***************************************************************************)
(* Proofs about CommandLoop, for every input, chunking and buffer cap.     *)
(***************************************************************************)
EXTENDS CommandLoop, TLAPS, SequenceTheorems, WellFoundedInduction

-----------------------------------------------------------------------------
(* FlattenSeq, which InputConserved is stated with                         *)

\* A set of natural numbers that is not empty has a least member: the induction
\* the lemmas below need.
LEMMA LeastNat ==
  ASSUME NEW S, S \subseteq Nat, S # {}
  PROVE  \E m \in S : \A k \in S : m <= k
<1>1. PICK m \in S : \A k \in S : ~(<<k, m>> \in OpToRel(<, Nat))
  BY WFMin, NatLessThanWellFounded
<1>2. ASSUME NEW k \in S PROVE m <= k
  <2>1. m \in Nat /\ k \in Nat
    OBVIOUS
  <2>2. k < m => <<k, m>> \in OpToRel(<, Nat)
    BY <2>1 DEF OpToRel
  <2>3. ~(k < m)
    BY <1>1, <2>2
  <2> QED BY <2>1, <2>3
<1> QED BY <1>2

\* f joins the first n members of seqs, one after another.
Joins(f, seqs, n) == f = [i \in 1 .. n |-> IF i = 1 THEN seqs[i] ELSE f[i - 1] \o seqs[i]]

\* FlattenSeq is the last of the joins.
LEMMA FlattenDef ==
  ASSUME NEW seqs, Len(seqs) # 0
  PROVE  FlattenSeq(seqs) = (CHOOSE f : Joins(f, seqs, Len(seqs)))[Len(seqs)]
  BY DEF FlattenSeq, Joins

\* What the joins are, one by one.
LEMMA JoinsValue ==
  ASSUME NEW f, NEW seqs, NEW n \in Nat, Joins(f, seqs, n)
  PROVE  DOMAIN f = 1 .. n /\ (1 \in 1 .. n => f[1] = seqs[1])
  BY DEF Joins

\* A join after the first adds one member to the join before it.
LEMMA JoinsStep ==
  ASSUME NEW f, NEW seqs, NEW n \in Nat, Joins(f, seqs, n), NEW i \in 1 .. n, i # 1
  PROVE  f[i] = f[i - 1] \o seqs[i]
<1> DEFINE F(k) == IF k = 1 THEN seqs[k] ELSE f[k - 1] \o seqs[k]
<1>1. f = [k \in 1 .. n |-> F(k)]
  BY DEF Joins
<1>2. F(i) = f[i - 1] \o seqs[i]
  BY Zenon
<1> HIDE DEF F
<1>3. f[i] = F(i)
  BY <1>1
<1> QED BY <1>2, <1>3

\* Joining members that are sequences over S gives sequences over S.
LEMMA JoinsType ==
  ASSUME NEW S, NEW seqs \in Seq(Seq(S)), NEW f, NEW n \in Nat, n <= Len(seqs),
         Joins(f, seqs, n)
  PROVE  \A i \in 1 .. n : f[i] \in Seq(S)
<1> DEFINE Bad == {i \in 1 .. n : f[i] \notin Seq(S)}
<1> SUFFICES ASSUME Bad # {} PROVE FALSE
  OBVIOUS
<1>1. PICK i \in Bad : \A k \in Bad : i <= k
  <2>1. Bad \subseteq Nat
    OBVIOUS
  <2> HIDE DEF Bad
  <2> QED BY <2>1, LeastNat
<1>2. i \in 1 .. n /\ f[i] \notin Seq(S) /\ seqs[i] \in Seq(S)
  <2>1. i \in 1 .. Len(seqs)
    OBVIOUS
  <2> QED BY <2>1, ElementOfSeq
<1>3. CASE i = 1
  BY <1>2, <1>3, JoinsValue, Zenon
<1>4. CASE i # 1
  <2>1. i - 1 \in 1 .. n /\ ~(i <= i - 1)
    BY <1>2, <1>4
  <2>2. f[i - 1] \in Seq(S)
    BY <1>1, <2>1
  <2>3. f[i] = f[i - 1] \o seqs[i]
    BY <1>2, <1>4, JoinsStep
  <2> QED BY <1>2, <2>2, <2>3, ConcatProperties
<1> QED BY <1>2, <1>3, <1>4

\* Two functions have the same first k values.
Agree(s, t, k) == \A i \in 1 .. k : s[i] = t[i]

\* Joins of two sequences agree as far as the sequences do.
LEMMA JoinsAgree ==
  ASSUME NEW n \in Nat, NEW k \in Nat, k <= n,
         NEW f, NEW s, Joins(f, s, k), NEW g, NEW t, Joins(g, t, n),
         Agree(s, t, k)
  PROVE  Agree(f, g, k)
<1> DEFINE Bad == {i \in 1 .. k : f[i] # g[i]}
<1> SUFFICES ASSUME Bad # {} PROVE FALSE
  BY DEF Agree
<1>1. PICK i \in Bad : \A j \in Bad : i <= j
  <2>1. Bad \subseteq Nat
    OBVIOUS
  <2> HIDE DEF Bad
  <2> QED BY <2>1, LeastNat
<1>2. i \in 1 .. k /\ i \in 1 .. n /\ f[i] # g[i] /\ s[i] = t[i]
  BY DEF Agree
<1>3. CASE i = 1
  BY <1>2, <1>3, JoinsValue, Zenon
<1>4. CASE i # 1
  <2>1. i - 1 \in 1 .. k /\ ~(i <= i - 1)
    BY <1>2, <1>4
  <2>2. f[i - 1] = g[i - 1]
    BY <1>1, <2>1
  <2>3. f[i] = f[i - 1] \o s[i]
    BY <1>2, <1>4, JoinsStep
  <2>4. g[i] = g[i - 1] \o t[i]
    BY <1>2, <1>4, JoinsStep
  <2> QED BY <1>2, <2>2, <2>3, <2>4
<1> QED BY <1>2, <1>3, <1>4

\* There are joins up to every n.
LEMMA JoinsExist == ASSUME NEW seqs PROVE \A n \in Nat : \E f : Joins(f, seqs, n)
<1> DEFINE Bad == {n \in Nat : ~ \E f : Joins(f, seqs, n)}
<1> SUFFICES ASSUME Bad # {} PROVE FALSE
  OBVIOUS
<1>1. PICK n \in Bad : \A k \in Bad : n <= k
  BY LeastNat
<1>2. n # 0
  <2> SUFFICES ASSUME n = 0 PROVE \E f : Joins(f, seqs, 0)
    BY <1>1
  <2> DEFINE f == [i \in 1 .. 0 |-> seqs[i]]
  <2>1. Joins(f, seqs, 0)
    BY DEF Joins
  <2> QED BY <2>1
<1>3. n - 1 \in Nat /\ ~(n <= n - 1)
  BY <1>2
<1>4. PICK f : Joins(f, seqs, n - 1)
  BY <1>1, <1>3
<1> DEFINE g == [i \in 1 .. n |-> IF i = n
                                   THEN IF n = 1 THEN seqs[n] ELSE f[n - 1] \o seqs[n]
                                   ELSE f[i]]
           H(i) == IF i = 1 THEN seqs[i] ELSE g[i - 1] \o seqs[i]
<1>5. ASSUME NEW i \in 1 .. n PROVE g[i] = H(i)
  <2>1. CASE i = n /\ n = 1
    BY <2>1
  <2>2. CASE i = n /\ n # 1
    <3>1. g[i] = f[n - 1] \o seqs[n]
      BY <2>2, Zenon
    <3>2. n - 1 \in 1 .. n /\ n - 1 # n
      BY <2>2
    <3>3. g[n - 1] = f[n - 1]
      BY <3>2
    <3>4. H(i) = g[n - 1] \o seqs[n]
      BY <2>2, Zenon
    <3> QED BY <3>1, <3>3, <3>4
  <2>3. CASE i # n /\ i = 1
    <3>1. g[i] = f[1] /\ 1 \in 1 .. n - 1
      BY <2>3
    <3>2. f[1] = seqs[1]
      BY <1>3, <1>4, <3>1, JoinsValue
    <3> QED BY <2>3, <3>1, <3>2
  <2>4. CASE i # n /\ i # 1
    <3>1. i \in 1 .. n - 1 /\ i - 1 \in 1 .. n /\ i - 1 # n
      BY <2>4
    <3>2. f[i] = f[i - 1] \o seqs[i]
      BY <1>3, <1>4, <2>4, <3>1, JoinsStep
    <3>3. g[i] = f[i]
      BY <2>4
    <3>4. g[i - 1] = f[i - 1]
      BY <3>1
    <3>5. H(i) = g[i - 1] \o seqs[i]
      BY <2>4, Zenon
    <3> QED BY <3>2, <3>3, <3>4, <3>5
  <2> QED BY <2>1, <2>2, <2>3, <2>4
<1>6. g = [i \in 1 .. n |-> H(i)]
  <2> HIDE DEF H
  <2> QED BY <1>5
<1>7. Joins(g, seqs, n)
  <2> HIDE DEF g
  <2> QED BY <1>6 DEF Joins
<1> QED BY <1>1, <1>7

\* FlattenSeq of sequences is a sequence, and the last of any joins.
LEMMA FlattenJoins ==
  ASSUME NEW S, NEW seqs \in Seq(Seq(S)), Len(seqs) # 0
  PROVE  \E f : Joins(f, seqs, Len(seqs)) /\ FlattenSeq(seqs) = f[Len(seqs)]
<1>1. Len(seqs) \in Nat
  BY LenProperties
<1>2. \E f : Joins(f, seqs, Len(seqs))
  BY <1>1, JoinsExist
<1>3. Joins(CHOOSE f : Joins(f, seqs, Len(seqs)), seqs, Len(seqs))
  BY <1>2
<1> QED BY <1>3, FlattenDef

\* The empty sequence flattens to the empty sequence.
LEMMA FlattenEmpty == ASSUME NEW seqs, Len(seqs) = 0 PROVE FlattenSeq(seqs) = seqs
  BY DEF FlattenSeq

\* FlattenSeq returns a sequence of members of the members.
LEMMA FlattenType ==
  ASSUME NEW S, NEW seqs \in Seq(Seq(S))
  PROVE  FlattenSeq(seqs) \in Seq(S)
<1>1. Len(seqs) \in Nat
  BY LenProperties
<1>2. CASE Len(seqs) = 0
  <2>1. seqs = <<>>
    BY <1>2, EmptySeq
  <2> QED BY <2>1, <1>2, FlattenEmpty, EmptySeq
<1>3. CASE Len(seqs) # 0
  <2>1. PICK f : Joins(f, seqs, Len(seqs)) /\ FlattenSeq(seqs) = f[Len(seqs)]
    BY <1>3, FlattenJoins
  <2>2. Len(seqs) \in 1 .. Len(seqs) /\ Len(seqs) <= Len(seqs)
    BY <1>1, <1>3
  <2> QED BY <1>1, <2>1, <2>2, JoinsType
<1> QED BY <1>2, <1>3

\* One more member is joined at the end.
LEMMA FlattenAppend ==
  ASSUME NEW S, NEW seqs \in Seq(Seq(S)), NEW line \in Seq(S)
  PROVE  FlattenSeq(Append(seqs, line)) = FlattenSeq(seqs) \o line
<1> DEFINE more == Append(seqs, line)
           n == Len(seqs)
           m == n + 1
<1>1. more \in Seq(Seq(S)) /\ Len(more) = m /\ more[m] = line
  BY LenProperties, AppendProperties
<1>2. \A i \in 1 .. n : more[i] = seqs[i]
  BY AppendProperties
<1>3. n \in Nat /\ m \in Nat /\ m \in 1 .. m /\ n <= n /\ n <= m /\ m # 0 /\ m - 1 = n
  BY LenProperties
<1>4. (n = 0 => m = 1) /\ (n # 0 => n \in 1 .. n /\ m # 1)
  BY <1>3
<1> HIDE DEF more, n, m
<1>5. PICK g : Joins(g, more, m) /\ FlattenSeq(more) = g[m]
  BY <1>1, <1>3, FlattenJoins
<1>6. CASE n = 0
  <2>1. g[1] = more[1]
    BY <1>3, <1>4, <1>5, <1>6, JoinsValue
  <2>2. seqs = <<>>
    BY <1>6, EmptySeq DEF n
  <2>3. FlattenSeq(seqs) = <<>>
    BY <1>6, <2>2, FlattenEmpty DEF n
  <2>4. <<>> \o line = line
    OBVIOUS
  <2>5. FlattenSeq(more) = line
    BY <1>1, <1>4, <1>5, <1>6, <2>1
  <2> QED BY <2>3, <2>4, <2>5 DEF more
<1>7. CASE n # 0
  <2>1. PICK f : Joins(f, seqs, n) /\ FlattenSeq(seqs) = f[n]
    BY <1>7, FlattenJoins DEF n
  <2>2. Agree(f, g, n)
    <3>1. Agree(seqs, more, n)
      BY <1>2 DEF Agree
    <3>2. Joins(f, seqs, n) /\ Joins(g, more, m) /\ n \in Nat /\ m \in Nat /\ n <= m
      BY <1>3, <1>5, <2>1
    <3> QED BY <3>1, <3>2, JoinsAgree
  <2>3. g[m] = g[m - 1] \o more[m]
    BY <1>3, <1>4, <1>5, <1>7, JoinsStep
  <2>4. g[m] = f[n] \o line
    BY <1>1, <1>3, <1>4, <1>7, <2>2, <2>3 DEF Agree
  <2> QED BY <1>5, <2>1, <2>4 DEF more
<1> QED BY <1>6, <1>7

-----------------------------------------------------------------------------
(* The inductive invariant                                                 *)

\* Outside the epoll set the descriptor is neither owed a report nor read, and
\* while it is read its event has left the batch; it is first watched by
\* set_command_input, and events are pending in a batch only.
WatchInv ==
  /\ ~registered => ~edge /\ "command" \notin batch /\ pc \notin {"read", "split"}
  /\ pc \in {"read", "split"} => "command" \notin batch
  /\ pc \in {"boot", "ready"} => ~registered
  /\ pc \notin {"dispatch", "read", "split"} => batch = {}

\* The end of the input was seen after everything was read.
EofInv == pc = "split" /\ eof => closed /\ pipe = <<>>

\* What arrives between the last read() and the end of the split is reported.
LateInv == pc = "split" /\ (pipe # <<>> \/ (closed /\ ~eof)) => edge

\* Before set_command_input nothing is handled; a last line without a newline
\* is the end: nothing more is written, and the descriptor has left the set.
LineInv ==
  /\ pc \in {"boot", "ready"} => handled = <<>>
  /\ \A i \in DOMAIN handled : LET line == handled[i] IN
       /\ line # <<>>
       /\ \A k \in 1 .. Len(line) - 1 : ~line[k].newline
       /\ line[Len(line)].newline
            \/ (i = Len(handled) /\ closed /\ pipe = <<>> /\ ~registered)

ControlInv == WatchInv /\ EofInv /\ LateInv /\ InputNoticed

CommandInv == TypeOK /\ ControlInv /\ LineInv /\ InputConserved

-----------------------------------------------------------------------------
(* The operators of the split                                              *)

\* find() gives the position of the first newline.
LEMMA FirstNewlineValue ==
  ASSUME buffer \in Seq(Piece), Newlines # {}
  PROVE  /\ FirstNewline \in 1 .. Len(buffer) /\ buffer[FirstNewline].newline
         /\ \A k \in 1 .. FirstNewline - 1 : ~buffer[k].newline
<1>1. Newlines \subseteq 1 .. Len(buffer) /\ Len(buffer) \in Nat
  BY LenProperties DEF Newlines
<1>2. PICK m \in Newlines : \A k \in Newlines : m <= k
  <2>1. Newlines \subseteq Nat
    BY <1>1
  <2> QED BY <2>1, LeastNat
<1>3. FirstNewline \in Newlines /\ \A k \in Newlines : FirstNewline <= k
  BY <1>2 DEF FirstNewline
<1> HIDE DEF FirstNewline
<1>4. FirstNewline \in 1 .. Len(buffer) /\ buffer[FirstNewline].newline
  BY <1>1, <1>3 DEF Newlines
<1>5. ASSUME NEW k \in 1 .. FirstNewline - 1 PROVE ~buffer[k].newline
  <2>1. k \in 1 .. Len(buffer) /\ ~(FirstNewline <= k)
    BY <1>1, <1>4
  <2>2. k \notin Newlines
    BY <1>3, <2>1
  <2>3. k \in DOMAIN buffer
    BY <2>1, LenProperties
  <2> QED BY <2>2, <2>3 DEF Newlines
<1> QED BY <1>4, <1>5

\* The callback gets one more line; quit also stops the loop.
LEMMA CallbackSteps ==
  ASSUME TypeOK, NEW line \in Seq(Piece), Callback(line)
  PROVE  /\ handled' = Append(handled, line) /\ handled' \in Seq(Seq(Piece))
         /\ stop_requested' \in BOOLEAN /\ wake' \in BOOLEAN /\ stopper' = stopper
<1>1. handled' = Append(handled, line) /\ stopper' = stopper
  BY DEF Callback
<1>2. Append(handled, line) \in Seq(Seq(Piece))
  BY AppendProperties DEF TypeOK
<1>3. stop_requested' \in BOOLEAN /\ wake' \in BOOLEAN
  BY DEF Callback, TypeOK
<1> QED BY <1>1, <1>2, <1>3

\* Concatenation of pieces is associative.
LEMMA PieceConcat ==
  ASSUME NEW s \in Seq(Piece), NEW t \in Seq(Piece), NEW u \in Seq(Piece)
  PROVE  (s \o t) \o u = s \o (t \o u)
  BY ConcatAssociative

\* A chunk leaves the pipe at its front.
LEMMA ChunkSteps ==
  ASSUME TypeOK, ReadChunk
  PROVE  /\ pipe' \in Seq(Piece) /\ buffer' \in Seq(Piece) /\ Len(buffer') <= MaxBuffer
         /\ discarded' \in BOOLEAN /\ (discarded => discarded')
         /\ ~discarded' => buffer' \o pipe' = buffer \o pipe
<1>1. PICK n \in 1 .. ReadSize :
        /\ n <= Len(pipe)
        /\ pipe' = SubSeq(pipe, n + 1, Len(pipe))
        /\ LET grown == buffer \o SubSeq(pipe, 1, n) IN
           IF OverCap(grown)
           THEN buffer' = <<>> /\ discarded' = TRUE
           ELSE buffer' = grown /\ UNCHANGED discarded
  BY DEF ReadChunk
<1> DEFINE chunk == SubSeq(pipe, 1, n)
           rest == SubSeq(pipe, n + 1, Len(pipe))
           grown == buffer \o chunk
<1>2. chunk \in Seq(Piece) /\ rest \in Seq(Piece) /\ chunk \o rest = pipe
  BY <1>1, InputAssumption DEF TypeOK
<1>3. grown \in Seq(Piece) /\ grown \o rest = buffer \o pipe
  <2>1. buffer \in Seq(Piece)
    BY DEF TypeOK
  <2> HIDE DEF chunk, rest
  <2>2. grown \in Seq(Piece)
    BY <1>2, <2>1, ConcatProperties
  <2>3. (buffer \o chunk) \o rest = buffer \o (chunk \o rest)
    BY <1>2, <2>1, PieceConcat
  <2> QED BY <1>2, <2>2, <2>3
<1> HIDE DEF chunk, rest, grown
<1>4. CASE OverCap(grown)
  <2>1. buffer' = <<>> /\ discarded' = TRUE
    BY <1>1, <1>4 DEF grown, chunk
  <2>2. Len(buffer') = 0 /\ buffer' \in Seq(Piece)
    BY <2>1, EmptySeq
  <2>3. Len(buffer') <= MaxBuffer
    BY <2>2, InputAssumption
  <2> QED BY <1>1, <1>2, <2>1, <2>2, <2>3 DEF rest
<1>5. CASE ~OverCap(grown)
  <2>1. buffer' = grown /\ discarded' = discarded
    BY <1>1, <1>5 DEF grown, chunk
  <2>2. Len(grown) <= MaxBuffer
    <3>1. Len(grown) \in Nat
      BY <1>3, LenProperties
    <3> QED BY <1>5, <3>1, InputAssumption DEF OverCap
  <2>3. pipe' = rest
    BY <1>1 DEF rest
  <2>4. discarded \in BOOLEAN
    BY DEF TypeOK
  <2> QED BY <1>2, <1>3, <2>1, <2>2, <2>3, <2>4
<1> QED BY <1>4, <1>5

\* One line leaves the buffer at its front, complete and not empty.
LEMMA SplitSteps ==
  ASSUME TypeOK, SplitLine
  PROVE  \E line \in Seq(Piece) :
           /\ Callback(line)
           /\ buffer' \in Seq(Piece) /\ Len(buffer') <= MaxBuffer /\ line \o buffer' = buffer
           /\ line # <<>> /\ line[Len(line)].newline
           /\ \A k \in 1 .. Len(line) - 1 : ~line[k].newline
<1> DEFINE f == FirstNewline
           n == Len(buffer)
           line == SubSeq(buffer, 1, f)
           rest == SubSeq(buffer, f + 1, n)
<1>1. buffer \in Seq(Piece) /\ n \in Nat /\ n <= MaxBuffer
  BY LenProperties DEF TypeOK
<1>2. f \in 1 .. n /\ buffer[f].newline /\ \A k \in 1 .. f - 1 : ~buffer[k].newline
  BY <1>1, FirstNewlineValue DEF SplitLine
<1>3. Callback(line) /\ buffer' = rest
  BY DEF SplitLine
<1> HIDE DEF f
<1>4. line \in Seq(Piece) /\ rest \in Seq(Piece) /\ line \o rest = buffer
  BY <1>1, <1>2
<1>5. Len(line) = f /\ \A k \in 1 .. f : line[k] = buffer[k]
  BY <1>1, <1>2
<1>6. Len(rest) = n - f
  BY <1>1, <1>2
<1> HIDE DEF n, line, rest
<1>7. n - f <= MaxBuffer /\ f \in 1 .. f /\ f > 0 /\ \A k \in 1 .. f - 1 : k \in 1 .. f
  BY <1>1, <1>2, InputAssumption
<1>8. line # <<>> /\ line[Len(line)].newline /\ \A k \in 1 .. Len(line) - 1 : ~line[k].newline
  <2>1. Len(line) # 0
    BY <1>5, <1>7
  <2>2. line # <<>>
    BY <2>1, EmptySeq
  <2> QED BY <1>2, <1>5, <1>7, <2>2
<1>9. buffer' \in Seq(Piece) /\ Len(buffer') <= MaxBuffer /\ line \o buffer' = buffer
  BY <1>3, <1>4, <1>6, <1>7
<1> QED BY <1>3, <1>4, <1>8, <1>9

\* At the end of the split the rest of the buffer is kept, or is the last line.
LEMMA DoneSteps ==
  ASSUME TypeOK, SplitDone
  PROVE  /\ buffer' \in Seq(Piece) /\ Len(buffer') <= MaxBuffer
         /\ \/ handled' = handled /\ buffer' = buffer
                 /\ UNCHANGED <<stopping, registered, edge>> /\ (eof => buffer = <<>>)
            \/ /\ eof /\ buffer' = <<>> /\ registered' = FALSE /\ edge' = FALSE
               /\ \/ handled' = handled /\ buffer = <<>> /\ UNCHANGED stopping
                  \/ Callback(buffer) /\ buffer # <<>>
                       /\ \A k \in 1 .. Len(buffer) : ~buffer[k].newline
<1>1. buffer \in Seq(Piece) /\ DOMAIN buffer = 1 .. Len(buffer) /\ Len(buffer) <= MaxBuffer
  BY LenProperties DEF TypeOK
<1>2. \A k \in 1 .. Len(buffer) : ~buffer[k].newline
  BY <1>1 DEF SplitDone, Newlines
<1>3. CASE eof
  <2>1. buffer' = <<>> /\ registered' = FALSE /\ edge' = FALSE
    BY <1>3 DEF SplitDone, Leftover
  <2>2. buffer' \in Seq(Piece) /\ Len(buffer') <= MaxBuffer
    <3>1. Len(buffer') = 0 /\ buffer' \in Seq(Piece)
      BY <2>1, EmptySeq
    <3> QED BY <3>1, InputAssumption
  <2>3. CASE buffer = <<>>
    BY <1>3, <2>1, <2>2, <2>3 DEF SplitDone, FinalLine
  <2>4. CASE buffer # <<>>
    <3>1. Callback(buffer)
      BY <1>3, <2>4 DEF SplitDone, FinalLine
    <3> QED BY <1>2, <1>3, <2>1, <2>2, <2>4, <3>1
  <2> QED BY <2>3, <2>4
<1>4. CASE ~eof
  BY <1>1, <1>4 DEF SplitDone, Leftover
<1> QED BY <1>3, <1>4

-----------------------------------------------------------------------------
(* Types                                                                   *)

\* Initially every variable has its type, nothing is handled or watched, and
\* what can be read is what was written.
LEMMA InitCommand == Init => CommandInv
<1> SUFFICES ASSUME Init PROVE CommandInv
  OBVIOUS
<1>1. Input \in Seq(Piece) /\ Len(Input) \in Nat /\ <<>> \in Seq(Piece) /\ <<>> \in Seq(Seq(Piece))
  BY InputAssumption, LenProperties, EmptySeq
<1>2. pipe \in Seq(Piece) /\ written \in 0 .. Len(Input) /\ pipe = SubSeq(Input, 1, written)
  <2>1. CASE pollable
    <3>1. pipe = <<>> /\ written = 0
      BY <2>1, EmptySeq DEF Init
    <3>2. SubSeq(Input, 1, 0) = <<>>
      BY <1>1
    <3> QED BY <1>1, <3>1, <3>2
  <2>2. CASE ~pollable
    <3>1. pipe = Input /\ written = Len(Input)
      BY <2>2 DEF Init
    <3>2. SubSeq(Input, 1, Len(Input)) = Input
      BY <1>1
    <3> QED BY <1>1, <3>1, <3>2
  <2> QED BY <2>1, <2>2
<1>3. buffer = <<>> /\ handled = <<>> /\ Len(buffer) = 0
  BY EmptySeq DEF Init
<1>4. Len(buffer) <= MaxBuffer
  BY <1>3, InputAssumption
<1>5. TypeOK
  BY <1>1, <1>2, <1>3, <1>4 DEF Init, TypeOK
<1>6. ControlInv
  BY DEF Init, ControlInv, WatchInv, EofInv, LateInv, InputNoticed
<1>7. LineInv
  BY <1>3 DEF LineInv
<1>8. InputConserved
  <2>1. FlattenSeq(handled) = <<>>
    BY <1>3, EmptySeq, FlattenEmpty
  <2>2. <<>> \o <<>> = <<>> /\ <<>> \o pipe = pipe
    BY <1>1, <1>2, ConcatEmptySeq
  <2>3. FlattenSeq(handled) \o buffer \o pipe = pipe
    BY <1>3, <2>1, <2>2
  <2> QED BY <1>2, <2>3 DEF InputConserved
<1> QED BY <1>5, <1>6, <1>7, <1>8 DEF CommandInv

\* Every step keeps the types.
LEMMA TypeNext == TypeOK /\ [Next]_vars => TypeOK'
<1> SUFFICES ASSUME TypeOK, [Next]_vars PROVE TypeOK'
  OBVIOUS
<1> USE DEF thread, stopping, operator, lines
<1>1. CASE Write
  <2>1. Len(Input) \in Nat /\ written \in 0 .. Len(Input) /\ written < Len(Input)
    BY <1>1, InputAssumption, LenProperties DEF Write, TypeOK
  <2>2. written + 1 \in 1 .. Len(Input) /\ written + 1 \in 0 .. Len(Input)
    BY <2>1
  <2>3. Input[written + 1] \in Piece
    BY <2>2, InputAssumption, ElementOfSeq
  <2>4. pipe' \in Seq(Piece)
    BY <1>1, <2>3, AppendProperties DEF Write, TypeOK
  <2> QED BY <1>1, <2>2, <2>4 DEF Write, TypeOK
<1>2. CASE Close
  <2>1. edge' \in BOOLEAN /\ closed' \in BOOLEAN
    BY <1>2 DEF Close, TypeOK
  <2> QED BY <1>2, <2>1 DEF Close, TypeOK
<1>12. CASE StopStore \/ StopWake
  BY <1>12 DEF TypeOK, StopStore, StopWake
<1>9. CASE SetCommandInput
  <2>1. registered' \in BOOLEAN /\ edge' \in BOOLEAN /\ pc' = "set"
    BY <1>9 DEF SetCommandInput, TypeOK
  <2> QED BY <1>9, <2>1 DEF SetCommandInput, TypeOK
<1>10. CASE InstallHandlers \/ Run \/ EpollInterrupted \/ BatchDone
  BY <1>10 DEF TypeOK, InstallHandlers, Run, EpollInterrupted, BatchDone
<1>11. CASE TestStop \/ ReadEnd
  BY <1>11 DEF TypeOK, TestStop, WhileNotStopped, ReadEnd
<1>3. CASE EpollWait
  <2>1. batch' \subseteq {"wake", "timer", "command"} /\ edge' \in BOOLEAN
    BY <1>3 DEF EpollWait
  <2> QED BY <1>3, <2>1 DEF EpollWait, TypeOK
<1>4. CASE DispatchWake \/ DispatchTimer \/ DispatchCommand
  BY <1>4 DEF TypeOK, DispatchWake, DispatchTimer, DispatchCommand
<1>5. CASE ReadChunk
  <2>1. pc' = "read" /\ UNCHANGED <<batch, stopping, registered, edge, pollable, closed,
                                    written, eof, handled>>
    BY <1>5 DEF ReadChunk, ReadAgain
  <2> QED BY <1>5, <2>1, ChunkSteps DEF TypeOK
<1>6. CASE SplitLine
  <2>1. PICK line \in Seq(Piece) : Callback(line) /\ buffer' \in Seq(Piece)
                                     /\ Len(buffer') <= MaxBuffer
    BY <1>6, SplitSteps
  <2>2. UNCHANGED <<thread, registered, edge, operator, eof, discarded>>
    BY <1>6 DEF SplitLine
  <2> QED BY <2>1, <2>2, CallbackSteps DEF TypeOK
<1>7. CASE SplitDone
  <2>1. buffer' \in Seq(Piece) /\ Len(buffer') <= MaxBuffer /\ buffer \in Seq(Piece)
    BY <1>7, DoneSteps DEF TypeOK
  <2>2. pc' = "dispatch" /\ UNCHANGED <<batch, operator, eof, discarded>>
    BY <1>7 DEF SplitDone
  <2>3. registered' \in BOOLEAN /\ edge' \in BOOLEAN
    BY <1>7 DEF SplitDone, TypeOK
  <2>4. \/ handled' = handled /\ UNCHANGED stopping
        \/ Callback(buffer)
    BY <1>7 DEF SplitDone, FinalLine
  <2>5. handled' \in Seq(Seq(Piece)) /\ stop_requested' \in BOOLEAN /\ wake' \in BOOLEAN
          /\ stopper' = stopper
    BY <2>1, <2>4, CallbackSteps DEF TypeOK
  <2> QED BY <2>1, <2>2, <2>3, <2>5 DEF TypeOK
<1>8. CASE UNCHANGED vars
  BY <1>8 DEF vars, TypeOK
<1> QED BY <1>1, <1>2, <1>3, <1>4, <1>5, <1>6, <1>7, <1>8, <1>9, <1>10, <1>11,
        <1>12
     DEF Next, Thread, Done

-----------------------------------------------------------------------------
(* Events, the end of the input and the lines                              *)

\* Every step keeps ControlInv.
LEMMA ControlNext == TypeOK /\ ControlInv /\ [Next]_vars => ControlInv'
<1> SUFFICES ASSUME TypeOK, ControlInv, [Next]_vars PROVE ControlInv'
  OBVIOUS
<1> USE DEF thread, stopping, operator, lines, ControlInv, WatchInv, EofInv, LateInv, InputNoticed
<1>1. CASE Write
  <2>1. ~closed /\ edge' = registered
          /\ UNCHANGED <<pc, batch, registered, closed, eof>>
    BY <1>1 DEF Write
  <2> QED BY <2>1
<1>2. CASE Close
  <2>1. ~closed /\ edge' = registered /\ UNCHANGED <<pc, batch, registered, pipe, eof>>
    BY <1>2 DEF Close
  <2> QED BY <2>1
<1>3. CASE StopStore \/ StopWake \/ InstallHandlers \/ Run \/ TestStop \/ EpollInterrupted
             \/ DispatchWake \/ DispatchTimer \/ BatchDone
  <2>1. /\ UNCHANGED <<registered, edge, pipe, closed, eof>>
        /\ batch' \subseteq batch /\ ("command" \in batch <=> "command" \in batch')
        /\ (pc' = "read" <=> pc = "read") /\ (pc' = "split" <=> pc = "split")
        /\ pc' \in {"boot", "ready"} => pc \in {"boot", "ready"}
        /\ pc' \notin {"dispatch", "read", "split"} => batch' = {}
    BY <1>3 DEF StopStore, StopWake, InstallHandlers, Run, TestStop, WhileNotStopped,
                EpollInterrupted, DispatchWake, DispatchTimer, BatchDone
  <2> QED BY <2>1
<1>4. CASE SetCommandInput
  BY <1>4 DEF SetCommandInput
<1>5. CASE EpollWait
  <2>1. /\ pc' = "dispatch" /\ edge' = (edge /\ "command" \notin batch')
        /\ ("command" \in batch' => edge)
        /\ UNCHANGED <<registered, pipe, closed, eof>> /\ pc = "wait"
    BY <1>5 DEF EpollWait
  <2> QED BY <2>1
<1>6. CASE DispatchCommand
  BY <1>6 DEF DispatchCommand
<1>7. CASE ReadChunk
  <2>1. pc = "read" /\ pc' = "read" /\ UNCHANGED <<batch, registered, edge, closed, eof>>
    BY <1>7 DEF ReadChunk, ReadAgain
  <2> QED BY <2>1
<1>8. CASE ReadEnd
  BY <1>8 DEF ReadEnd
<1>9. CASE SplitLine
  <2>1. UNCHANGED <<pc, batch, registered, edge, pipe, closed, eof>>
    BY <1>9 DEF SplitLine
  <2> QED BY <2>1
<1>10. CASE SplitDone
  <2>1. pc = "split" /\ pc' = "dispatch" /\ UNCHANGED <<batch, pipe, closed, eof>>
    BY <1>10 DEF SplitDone
  <2>2. (eof /\ registered' = FALSE /\ edge' = FALSE) \/ (~eof /\ UNCHANGED <<registered, edge>>)
    BY <1>10 DEF SplitDone, TypeOK
  <2> QED BY <2>1, <2>2
<1>11. CASE UNCHANGED vars
  BY <1>11 DEF vars
<1> QED BY <1>1, <1>2, <1>3, <1>4, <1>5, <1>6, <1>7, <1>8, <1>9, <1>10, <1>11
     DEF Next, Thread, Done

\* What LineInv says of one line: it is complete, or the last of all.
Whole(line, over) ==
  /\ line # <<>>
  /\ \A k \in 1 .. Len(line) - 1 : ~line[k].newline
  /\ line[Len(line)].newline \/ over

\* A line given to the callback keeps LineInv, if the lines before it are
\* complete and it is complete itself or the last.
LEMMA LineAppend ==
  ASSUME TypeOK, LineInv, registered, pc' \notin {"boot", "ready"},
         NEW line \in Seq(Piece), Callback(line),
         Whole(line, closed' /\ pipe' = <<>> /\ ~registered')
  PROVE  LineInv'
<1> DEFINE n == Len(handled)
           over == closed' /\ pipe' = <<>> /\ ~registered'
<1>1. handled \in Seq(Seq(Piece)) /\ n \in Nat /\ DOMAIN handled = 1 .. n
  BY LenProperties DEF TypeOK
<1>2. handled' = Append(handled, line) /\ handled' \in Seq(Seq(Piece))
  BY CallbackSteps
<1>3. Len(handled') = n + 1 /\ handled'[n + 1] = line
        /\ \A i \in 1 .. n : handled'[i] = handled[i]
  BY <1>1, <1>2, AppendProperties
<1>4. DOMAIN handled' = 1 .. n + 1
  BY <1>2, <1>3, LenProperties
<1>5. \A i \in 1 .. n : Whole(handled[i], FALSE)
  BY <1>1 DEF LineInv, Whole
<1> HIDE DEF n, over
<1>6. ASSUME NEW i \in 1 .. n + 1 PROVE Whole(handled'[i], i = n + 1 /\ over)
  <2>1. CASE i = n + 1
    BY <1>3, <2>1 DEF Whole, over
  <2>2. CASE i # n + 1
    <3>1. i \in 1 .. n
      BY <1>1, <2>2
    <3>2. Whole(handled'[i], FALSE)
      BY <1>3, <1>5, <3>1
    <3> QED BY <3>2 DEF Whole
  <2> QED BY <2>1, <2>2
<1> QED BY <1>3, <1>4, <1>6 DEF LineInv, Whole, over

\* Every step keeps LineInv.
LEMMA LineNext == TypeOK /\ ControlInv /\ LineInv /\ [Next]_vars => LineInv'
<1> SUFFICES ASSUME TypeOK, ControlInv, LineInv, [Next]_vars PROVE LineInv'
  OBVIOUS
<1> USE DEF thread, stopping, operator, lines
<1>1. CASE SplitLine
  <2>1. PICK line \in Seq(Piece) :
          /\ Callback(line) /\ line # <<>> /\ line[Len(line)].newline
          /\ \A k \in 1 .. Len(line) - 1 : ~line[k].newline
    BY <1>1, SplitSteps
  <2>2. Whole(line, closed' /\ pipe' = <<>> /\ ~registered')
    BY <2>1 DEF Whole
  <2>3. registered /\ UNCHANGED <<closed, pipe>> /\ pc' \notin {"boot", "ready"}
    BY <1>1 DEF SplitLine, ControlInv, WatchInv
  <2> QED BY <2>1, <2>2, <2>3, LineAppend
<1>2. CASE SplitDone
  <2>1. pc = "split" /\ pc' = "dispatch" /\ UNCHANGED <<closed, pipe>> /\ registered
    BY <1>2 DEF SplitDone, ControlInv, WatchInv
  <2>2. CASE handled' = handled
    <3>1. \A i \in DOMAIN handled : handled[i][Len(handled[i])].newline
      BY <2>1 DEF LineInv
    <3> QED BY <2>1, <2>2, <3>1 DEF LineInv
  <2>3. CASE handled' # handled
    <3>1. /\ eof /\ registered' = FALSE /\ Callback(buffer) /\ buffer # <<>>
          /\ \A k \in 1 .. Len(buffer) : ~buffer[k].newline
      BY <1>2, <2>3, DoneSteps
    <3>2. closed /\ pipe = <<>>
      BY <2>1, <3>1 DEF ControlInv, EofInv
    <3>3. buffer \in Seq(Piece) /\ Len(buffer) \in Nat
      BY LenProperties DEF TypeOK
    <3>4. \A k \in 1 .. Len(buffer) - 1 : ~buffer[k].newline
      BY <3>1, <3>3
    <3>5. Whole(buffer, closed' /\ pipe' = <<>> /\ ~registered')
      BY <2>1, <3>1, <3>2, <3>4 DEF Whole
    <3> QED BY <2>1, <3>1, <3>3, <3>5, LineAppend
  <2> QED BY <2>2, <2>3
<1>3. CASE Write \/ Close
  <2>1. ~closed /\ UNCHANGED <<pc, handled, registered>>
    BY <1>3 DEF Write, Close
  <2>2. \A i \in DOMAIN handled : handled[i][Len(handled[i])].newline
    BY <2>1 DEF LineInv
  <2> QED BY <2>1, <2>2 DEF LineInv
<1>4. CASE SetCommandInput
  <2>1. handled = <<>> /\ handled' = handled
    BY <1>4 DEF SetCommandInput, LineInv
  <2> QED BY <2>1 DEF LineInv
<1>5. CASE ReadChunk
  <2>1. registered /\ pc' = "read" /\ handled' = handled
    BY <1>5 DEF ReadChunk, ReadAgain, ControlInv, WatchInv
  <2>2. \A i \in DOMAIN handled : handled[i][Len(handled[i])].newline
    BY <2>1 DEF LineInv
  <2> QED BY <2>1, <2>2 DEF LineInv
<1>6. CASE StopStore \/ StopWake \/ InstallHandlers \/ Run \/ TestStop \/ EpollWait
             \/ EpollInterrupted \/ DispatchWake \/ DispatchTimer \/ DispatchCommand
             \/ BatchDone \/ ReadEnd \/ UNCHANGED vars
  <2>1. /\ UNCHANGED <<handled, closed, pipe, registered>>
        /\ pc' \in {"boot", "ready"} => pc \in {"boot", "ready"}
    BY <1>6 DEF vars, StopStore, StopWake, InstallHandlers, Run, TestStop, WhileNotStopped,
                EpollWait, EpollInterrupted, DispatchWake, DispatchTimer, DispatchCommand,
                BatchDone, ReadEnd
  <2> QED BY <2>1 DEF LineInv
<1> QED BY <1>1, <1>2, <1>3, <1>4, <1>5, <1>6 DEF Next, Thread, Done

-----------------------------------------------------------------------------
(* Nothing typed is lost                                                   *)

\* Every step keeps InputConserved.
LEMMA ConservedNext == TypeOK /\ InputConserved /\ [Next]_vars => InputConserved'
<1> SUFFICES ASSUME TypeOK, InputConserved, [Next]_vars PROVE InputConserved'
  OBVIOUS
<1> USE DEF thread, stopping, operator, lines
<1> DEFINE flat == FlattenSeq(handled)
<1>0. flat \in Seq(Piece) /\ buffer \in Seq(Piece) /\ pipe \in Seq(Piece)
  BY FlattenType DEF TypeOK
<1> HIDE DEF flat
<1>c. ~discarded => (flat \o buffer) \o pipe = SubSeq(Input, 1, written)
  BY DEF InputConserved, flat
<1>1. CASE Write
  <2> DEFINE x == Input[written + 1]
             all == SubSeq(Input, 1, written)
             front == flat \o buffer
  <2>1. pipe' = Append(pipe, x) /\ written' = written + 1
          /\ UNCHANGED <<handled, buffer, discarded>> /\ written < Len(Input)
    BY <1>1 DEF Write
  <2>2. Input \in Seq(Piece) /\ Len(Input) \in Nat /\ written \in 0 .. Len(Input)
    BY InputAssumption, LenProperties DEF TypeOK
  <2>3. written + 1 \in 1 .. Len(Input)
    BY <2>1, <2>2
  <2>4. x \in Piece
    BY <2>2, <2>3, ElementOfSeq
  <2>5. SubSeq(Input, 1, written + 1) = Append(all, x)
    BY <2>1, <2>2
  <2>6. front \in Seq(Piece)
    BY <1>0, ConcatProperties
  <2> HIDE DEF x, front, all
  <2>7. front \o Append(pipe, x) = Append(front \o pipe, x)
    BY <1>0, <2>4, <2>6
  <2>8. ~discarded => front \o pipe' = SubSeq(Input, 1, written')
    BY <1>c, <2>1, <2>5, <2>7 DEF front, all
  <2> QED BY <2>1, <2>8 DEF InputConserved, front, flat
<1>2. CASE ReadChunk
  <2>1. /\ pipe' \in Seq(Piece) /\ buffer' \in Seq(Piece) /\ (discarded => discarded')
        /\ ~discarded' => buffer' \o pipe' = buffer \o pipe
        /\ UNCHANGED <<handled, written>>
    BY <1>2, ChunkSteps DEF ReadChunk
  <2>2. (flat \o buffer) \o pipe = flat \o (buffer \o pipe)
    BY <1>0, PieceConcat
  <2>3. (flat \o buffer') \o pipe' = flat \o (buffer' \o pipe')
    BY <1>0, <2>1, PieceConcat
  <2>4. ~discarded' => (flat \o buffer') \o pipe' = SubSeq(Input, 1, written')
    BY <1>c, <2>1, <2>2, <2>3
  <2> QED BY <2>1, <2>4 DEF InputConserved, flat
<1>3. CASE SplitLine
  <2>1. PICK line \in Seq(Piece) : Callback(line) /\ buffer' \in Seq(Piece)
                                     /\ line \o buffer' = buffer
    BY <1>3, SplitSteps
  <2>2. UNCHANGED <<pipe, written, discarded>>
    BY <1>3 DEF SplitLine
  <2>3. FlattenSeq(handled') = flat \o line
    BY <2>1, CallbackSteps, FlattenAppend DEF TypeOK, flat
  <2>4. (flat \o line) \o buffer' = flat \o buffer
    BY <1>0, <2>1, PieceConcat
  <2> QED BY <1>c, <2>2, <2>3, <2>4 DEF InputConserved
<1>4. CASE SplitDone
  <2>1. UNCHANGED <<pipe, written, discarded>>
    BY <1>4 DEF SplitDone
  <2>2. CASE handled' = handled /\ buffer' = buffer
    BY <1>c, <2>1, <2>2 DEF InputConserved, flat
  <2>3. CASE Callback(buffer) /\ buffer' = <<>>
    <3>1. FlattenSeq(handled') = flat \o buffer
      BY <1>0, <2>3, CallbackSteps, FlattenAppend DEF TypeOK, flat
    <3>2. (flat \o buffer) \o <<>> = flat \o buffer
      <4>1. flat \o buffer \in Seq(Piece)
        BY <1>0, ConcatProperties
      <4> QED BY <4>1, ConcatEmptySeq
    <3> QED BY <1>c, <2>1, <2>3, <3>1, <3>2 DEF InputConserved
  <2> QED BY <1>4, <2>2, <2>3, DoneSteps
<1>5. CASE Close \/ StopStore \/ StopWake \/ InstallHandlers \/ SetCommandInput \/ Run
             \/ TestStop \/ EpollWait \/ EpollInterrupted \/ DispatchWake \/ DispatchTimer
             \/ DispatchCommand \/ BatchDone \/ ReadEnd \/ UNCHANGED vars
  <2>1. UNCHANGED <<handled, buffer, pipe, written, discarded>>
    BY <1>5 DEF vars, Close, StopStore, StopWake, InstallHandlers, SetCommandInput, Run,
                TestStop, EpollWait, EpollInterrupted, DispatchWake, DispatchTimer,
                DispatchCommand, BatchDone, ReadEnd
  <2> QED BY <2>1 DEF InputConserved
<1> QED BY <1>1, <1>2, <1>3, <1>4, <1>5 DEF Next, Thread, Done

-----------------------------------------------------------------------------
(* The theorems                                                            *)

\* The reactor, the operator and stop() keep CommandInv, for every input, cap and
\* chunk size.
THEOREM CommandCorrect == Spec => []CommandInv
<1>1. CommandInv /\ [Next]_vars => CommandInv'
  BY TypeNext, ControlNext, LineNext, ConservedNext DEF CommandInv
<1> QED BY InitCommand, <1>1, PTL DEF Spec

\* Every variable keeps its type; the line buffer never exceeds the cap of
\* on_command_fd_readable.
THEOREM CommandTypeCorrect == Spec => []TypeOK
<1>1. CommandInv => TypeOK
  BY DEF CommandInv
<1> QED BY <1>1, CommandCorrect, PTL

\* Unless the cap was hit, what on_command_fd_readable gave to the callback, holds
\* in the buffer and has yet to read is what was typed, in that order.
THEOREM InputConservedCorrect == Spec => []InputConserved
<1>1. CommandInv => InputConserved
  BY DEF CommandInv
<1> QED BY <1>1, CommandCorrect, PTL

\* The callback gets whole lines, the last line of an ended input excepted.
THEOREM LinesIntactCorrect == Spec => []LinesIntact
<1>1. CommandInv => LinesIntact
  BY DEF CommandInv, LineInv, LinesIntact
<1> QED BY <1>1, CommandCorrect, PTL

\* Edge-triggered epoll owes a report of all input that nobody is handling.
THEOREM InputNoticedCorrect == Spec => []InputNoticed
<1>1. CommandInv => InputNoticed
  BY DEF CommandInv, ControlInv
<1> QED BY <1>1, CommandCorrect, PTL
=============================================================================
