-------------------------- MODULE ReplicationProofs --------------------------
(***************************************************************************)
(* Theorems about Replication and the framed stream it runs over, for any  *)
(* documents, bindings, queries and sizes of messages, any cutting of the  *)
(* stream into chunks and any failures of reads and writes.                *)
(***************************************************************************)
EXTENDS Replication, SequenceTheorems, FunctionTheorems, FiniteSetTheorems,
        WellFoundedInduction, TLAPS

-----------------------------------------------------------------------------
(* Induction, and functions that are defined by it.                        *)

LEMMA Induction ==
    ASSUME NEW T, 0 \in T, \A n \in Nat : n \in T => n + 1 \in T
    PROVE  \A n \in Nat : n \in T
<1> DEFINE R   == {ss \in Nat \X Nat : ss[1] < ss[2]}
           bad == {n \in Nat : n \notin T}
<1>1. SUFFICES ASSUME bad # {} PROVE FALSE
    OBVIOUS
<1>2. IsWellFoundedOn(R, Nat)
    BY NatLessThanWellFounded DEF OpToRel
<1>3. PICK x \in bad : \A y \in bad : ~(<<y, x>> \in R)
    <2> HIDE DEF R
    <2>1. bad \subseteq Nat
        OBVIOUS
    <2> HIDE DEF bad
    <2>2. QED
        BY <1>1, <1>2, <2>1, WFMin
<1>4. x \in Nat /\ x # 0
    BY <1>3
<1>5. x - 1 \in Nat /\ <<x - 1, x>> \in R
    BY <1>4
<1>6. x - 1 \in T
    BY <1>3, <1>5
<1>7. QED
    BY <1>3, <1>4, <1>5, <1>6

\* The first n places of what x becomes by f, step by step.
Iterated(g, f, x, n) == g[0] = x /\ \A k \in 0 .. n - 1 : g[k + 1] = f[<<k, g[k]>>]

LEMMA IteratedAgree ==
    ASSUME NEW f, NEW x, NEW n \in Nat, NEW m \in Nat, NEW g, NEW h,
           Iterated(g, f, x, n), Iterated(h, f, x, m)
    PROVE  \A k \in Nat : k <= n /\ k <= m => g[k] = h[k]
<1> DEFINE T == {k \in Nat : k <= n /\ k <= m => g[k] = h[k]}
<1>1. 0 \in T
    BY DEF Iterated
<1>2. ASSUME NEW k \in Nat, k \in T PROVE k + 1 \in T
    <2>1. SUFFICES ASSUME k + 1 <= n, k + 1 <= m PROVE g[k + 1] = h[k + 1]
        OBVIOUS
    <2>2. k \in 0 .. n - 1 /\ k \in 0 .. m - 1 /\ g[k] = h[k]
        BY <1>2, <2>1
    <2>3. QED
        BY <2>2 DEF Iterated
<1> HIDE DEF T
<1>3. \A k \in Nat : k \in T
    BY <1>1, <1>2, Induction
<1>4. QED
    BY <1>3 DEF T

Iteration(g, f, x, S) ==
    g \in [Nat -> S] /\ g[0] = x /\ \A n \in Nat : g[n + 1] = f[<<n, g[n]>>]

LEMMA Iterates ==
    ASSUME NEW S, NEW x \in S, NEW f \in [Nat \X S -> S]
    PROVE  \E g : Iteration(g, f, x, S)
<1> DEFINE T == {n \in Nat : \E g \in [0 .. n -> S] : Iterated(g, f, x, n)}
<1>1. 0 \in T
    <2> DEFINE g == [k \in 0 .. 0 |-> x]
    <2>1. g \in [0 .. 0 -> S] /\ Iterated(g, f, x, 0)
        BY DEF Iterated
    <2>2. QED
        BY <2>1
<1>2. ASSUME NEW n \in Nat, n \in T PROVE n + 1 \in T
    <2>1. PICK g \in [0 .. n -> S] : Iterated(g, f, x, n)
        BY <1>2
    <2> DEFINE h == [k \in 0 .. n + 1 |-> IF k = n + 1 THEN f[<<n, g[n]>>] ELSE g[k]]
    <2>2. g[n] \in S /\ f[<<n, g[n]>>] \in S
        OBVIOUS
    <2>3. h \in [0 .. n + 1 -> S]
        BY <2>2
    <2>4. Iterated(h, f, x, n + 1)
        <3>1. h[0] = x
            BY <2>1 DEF Iterated
        <3>2. ASSUME NEW k \in 0 .. (n + 1) - 1 PROVE h[k + 1] = f[<<k, h[k]>>]
            <4>0. /\ k \in 0 .. n + 1 /\ k + 1 \in 0 .. n + 1 /\ k # n + 1
                  /\ h[k] = g[k]
                OBVIOUS
            <4>1. CASE k = n
                <5>1. h[k + 1] = f[<<n, g[n]>>]
                    BY <4>0, <4>1
                <5>2. QED
                    BY <4>0, <4>1, <5>1
            <4>2. CASE k # n
                <5>1. k \in 0 .. n - 1 /\ k + 1 # n + 1
                    BY <4>2
                <5>2. h[k + 1] = g[k + 1]
                    BY <4>0, <5>1
                <5>3. QED
                    BY <2>1, <4>0, <5>1, <5>2 DEF Iterated
            <4>3. QED
                BY <4>1, <4>2
        <3> HIDE DEF h
        <3>3. QED
            BY <3>1, <3>2 DEF Iterated
    <2> HIDE DEF h
    <2>5. QED
        BY <2>3, <2>4
<1>3. \A n \in Nat : n \in T
    <2> HIDE DEF T
    <2>1. QED
        BY <1>1, <1>2, Induction
<1> DEFINE chosen(n) == CHOOSE g \in [0 .. n -> S] : Iterated(g, f, x, n)
<1>4. \A n \in Nat : chosen(n) \in [0 .. n -> S] /\ Iterated(chosen(n), f, x, n)
    BY <1>3
<1> DEFINE G == [n \in Nat |-> chosen(n)[n]]
<1> HIDE DEF chosen, T
<1>5. G \in [Nat -> S]
    BY <1>4
<1>6. G[0] = x
    BY <1>4 DEF Iterated
<1>7. ASSUME NEW n \in Nat PROVE G[n + 1] = f[<<n, G[n]>>]
    <2>1. /\ Iterated(chosen(n), f, x, n) /\ Iterated(chosen(n + 1), f, x, n + 1)
          /\ n \in 0 .. (n + 1) - 1 /\ n + 1 \in Nat /\ n <= n + 1 /\ n <= n
        BY <1>4
    <2>2. chosen(n)[n] = chosen(n + 1)[n]
        BY <2>1, IteratedAgree
    <2>3. chosen(n + 1)[n + 1] = f[<<n, chosen(n + 1)[n]>>]
        BY <2>1 DEF Iterated
    <2>4. QED
        BY <2>1, <2>2, <2>3
<1> HIDE DEF G
<1>8. Iteration(G, f, x, S)
    BY <1>5, <1>6, <1>7 DEF Iteration
<1>9. QED
    BY <1>8

-----------------------------------------------------------------------------
(* The framer: a turn of its loop, and what all turns keep.                *)

Turned(t, stray) ==
    IF Complete(t.rest, stray)
    THEN [messages |-> Append(t.messages, Decode(FirstPayload(t.rest, stray))),
          rest |-> AfterFirst(t.rest, stray)]
    ELSE t

\* The states of the loop, from the first.
Turns(g, bytes, stray) ==
    /\ g[0] = [messages |-> <<>>, rest |-> bytes]
    /\ \A n \in Nat : g[n + 1] = Turned(g[n], stray)

LEMMA FramedTurns ==
    ASSUME NEW bytes, NEW stray, NEW S, [messages |-> <<>>, rest |-> bytes] \in S,
           \A t \in S : Turned(t, stray) \in S
    PROVE  \E g \in [Nat -> S] :
              Turns(g, bytes, stray) /\ Framed(bytes, stray) = g[Len(bytes) \div FRAME_HEADER_BYTES]
<1> DEFINE start == [messages |-> <<>>, rest |-> bytes]
           f     == [z \in Nat \X S |-> Turned(z[2], stray)]
           body(turn, n) ==
               IF n = 0 THEN start
               ELSE LET t == turn[n - 1] IN
                    IF Complete(t.rest, stray)
                    THEN [messages |-> Append(t.messages, Decode(FirstPayload(t.rest, stray))),
                          rest |-> AfterFirst(t.rest, stray)]
                    ELSE t
           T     == CHOOSE turn : turn = [n \in Nat |-> body(turn, n)]
<1>1. Framed(bytes, stray) = T[Len(bytes) \div FRAME_HEADER_BYTES]
    BY DEF Framed
<1>2. \A turn, n : body(turn, n) = IF n = 0 THEN start ELSE Turned(turn[n - 1], stray)
    BY DEF Turned
<1> HIDE DEF body
<1>3. f \in [Nat \X S -> S] /\ start \in S
    OBVIOUS
<1> HIDE DEF start, T
<1>4. PICK g : Iteration(g, f, start, S)
    <2> HIDE DEF f
    <2>1. QED
        BY <1>3, Iterates
<1>5. /\ g \in [Nat -> S] /\ g[0] = start
      /\ \A n \in Nat : g[n + 1] = Turned(g[n], stray)
    BY <1>4 DEF Iteration
<1> HIDE DEF f
<1>6. g = [n \in Nat |-> body(g, n)]
    <2>1. ASSUME NEW n \in Nat PROVE g[n] = body(g, n)
        <3>1. CASE n = 0
            BY <1>2, <1>5, <3>1
        <3>2. CASE n # 0
            <4>1. n - 1 \in Nat /\ (n - 1) + 1 = n
                BY <3>2
            <4>2. g[n] = Turned(g[n - 1], stray)
                BY <1>5, <4>1
            <4>3. QED
                BY <1>2, <3>2, <4>2
        <3>3. QED
            BY <3>1, <3>2
    <2>2. QED
        BY <1>5, <2>1
<1>7. T = [n \in Nat |-> body(T, n)]
    BY <1>6 DEF T
<1>8. \A n \in Nat : T[n] = body(T, n)
    BY <1>7
<1>9. T[0] = start /\ \A n \in Nat : T[n + 1] = Turned(T[n], stray)
    <2>1. T[0] = start
        BY <1>2, <1>8
    <2>2. ASSUME NEW n \in Nat PROVE T[n + 1] = Turned(T[n], stray)
        <3>1. n + 1 \in Nat /\ n + 1 # 0 /\ (n + 1) - 1 = n
            OBVIOUS
        <3>2. QED
            BY <1>2, <1>8, <3>1
    <2>3. QED
        BY <2>1, <2>2
<1> DEFINE P == {n \in Nat : T[n] \in S}
<1>10. \A n \in Nat : n \in P
    <2>1. 0 \in P /\ \A n \in Nat : n \in P => n + 1 \in P
        BY <1>3, <1>9
    <2> HIDE DEF P
    <2>2. QED
        BY <2>1, Induction
<1>11. T \in [Nat -> S]
    BY <1>7, <1>10
<1>12. Turns(T, bytes, stray)
    BY <1>9 DEF Turns, start
<1>13. QED
    BY <1>1, <1>11, <1>12

\* What holds of the first state of the loop and is kept by a turn holds of
\* its result.
LEMMA FramedKeeps ==
    ASSUME NEW bytes, Len(bytes) \in Nat, NEW stray, NEW S,
           [messages |-> <<>>, rest |-> bytes] \in S, \A t \in S : Turned(t, stray) \in S
    PROVE  Framed(bytes, stray) \in S
<1>1. Len(bytes) \div FRAME_HEADER_BYTES \in Nat
    BY StreamAssumption
<1>2. QED
    BY <1>1, FramedTurns

-----------------------------------------------------------------------------
(* The documents of a snapshot, applied one after the other.               *)

AppliedNext(result, type, document) ==
    IF result.ok /\ document.schema = SchemaOf(type)
    THEN ApplyPut(result.cache, type, document)
    ELSE result

\* after is what the first documents make of the cache, one after the other.
AppliedInTurn(after, cache, type, documents) ==
    /\ after[0] = Ok(cache)
    /\ \A n \in 1 .. Len(documents) :
          after[n] = AppliedNext(after[n - 1], type, documents[n])

\* There is such a function, if each document leaves a result, and a snapshot
\* makes of the cache what it says last.
LEMMA SnapshotSteps ==
    ASSUME NEW cache, NEW type, NEW documents, Len(documents) \in Nat, NEW S, Ok(cache) \in S,
           \A r \in S, i \in 1 .. Len(documents) : AppliedNext(r, type, documents[i]) \in S
    PROVE  \E after : /\ AppliedInTurn(after, cache, type, documents)
                      /\ ApplySnapshot(cache, type, documents) = after[Len(documents)]
<1> DEFINE start == Ok(cache)
           N     == Len(documents)
           f     == [z \in Nat \X S |-> IF z[1] + 1 <= N
                                        THEN AppliedNext(z[2], type, documents[z[1] + 1])
                                        ELSE z[2]]
           body(after, n) ==
               IF n = 0 THEN Ok(cache)
               ELSE LET result == after[n - 1] IN
                    IF result.ok /\ documents[n].schema = SchemaOf(type)
                    THEN ApplyPut(result.cache, type, documents[n])
                    ELSE result
           T     == CHOOSE after : after = [n \in 0 .. Len(documents) |-> body(after, n)]
<1>1. ApplySnapshot(cache, type, documents) = T[Len(documents)]
    BY DEF ApplySnapshot
<1>2. \A after, n : body(after, n) =
          IF n = 0 THEN start ELSE AppliedNext(after[n - 1], type, documents[n])
    BY DEF AppliedNext
<1> HIDE DEF body
<1>3. start \in S
    OBVIOUS
<1> HIDE DEF start, T
<1>4. f \in [Nat \X S -> S]
    <2>1. ASSUME NEW z \in Nat \X S, z[1] + 1 <= N
          PROVE  AppliedNext(z[2], type, documents[z[1] + 1]) \in S
        <3>1. z[1] + 1 \in 1 .. Len(documents) /\ z[2] \in S
            BY <2>1
        <3>2. QED
            BY <3>1
    <2>2. \A z \in Nat \X S : z[2] \in S
        OBVIOUS
    <2>3. QED
        BY <2>1, <2>2
<1>5. PICK g : Iteration(g, f, start, S)
    <2> HIDE DEF f
    <2>1. QED
        BY <1>3, <1>4, Iterates
<1>6. /\ g \in [Nat -> S] /\ g[0] = start
      /\ \A n \in Nat : n + 1 <= N => g[n + 1] = AppliedNext(g[n], type, documents[n + 1])
    <2>1. g \in [Nat -> S] /\ g[0] = start /\ \A n \in Nat : g[n + 1] = f[<<n, g[n]>>]
        BY <1>5 DEF Iteration
    <2>2. QED
        BY <2>1
<1> HIDE DEF f
<1> DEFINE h == [n \in 0 .. N |-> g[n]]
<1>7. h = [n \in 0 .. N |-> body(h, n)]
    <2>1. ASSUME NEW n \in 0 .. N PROVE h[n] = body(h, n)
        <3>1. CASE n = 0
            BY <1>2, <1>6, <3>1
        <3>2. CASE n # 0
            <4>1. n - 1 \in Nat /\ n - 1 \in 0 .. N /\ (n - 1) + 1 = n /\ n <= N
                BY <3>2
            <4>2. g[n] = AppliedNext(g[n - 1], type, documents[n])
                BY <1>6, <4>1
            <4>3. h[n] = g[n] /\ h[n - 1] = g[n - 1]
                BY <4>1
            <4> HIDE DEF h
            <4>4. QED
                BY <1>2, <3>2, <4>2, <4>3
        <3>3. QED
            BY <3>1, <3>2
    <2>2. h = [n \in 0 .. N |-> h[n]]
        OBVIOUS
    <2> HIDE DEF h
    <2>3. QED
        BY <2>1, <2>2
<1>8. T = [n \in 0 .. N |-> body(T, n)]
    <2> HIDE DEF h
    <2>1. QED
        BY <1>7 DEF T
<1>9. \A n \in 0 .. N : T[n] = body(T, n)
    BY <1>8
<1>10. AppliedInTurn(T, cache, type, documents)
    <2>1. 0 \in 0 .. N /\ \A n \in 1 .. N : n \in 0 .. N /\ n # 0
        OBVIOUS
    <2>2. QED
        BY <1>2, <1>9, <2>1 DEF AppliedInTurn, start
<1>11. QED
    BY <1>1, <1>10

\* What holds before the first document and is kept by each holds of the
\* result.
LEMMA SnapshotKeeps ==
    ASSUME NEW cache, NEW type, NEW documents, Len(documents) \in Nat, NEW S, Ok(cache) \in S,
           \A r \in S, i \in 1 .. Len(documents) : AppliedNext(r, type, documents[i]) \in S
    PROVE  ApplySnapshot(cache, type, documents) \in S
<1> DEFINE N == Len(documents)
<1>1. PICK T : /\ AppliedInTurn(T, cache, type, documents)
               /\ ApplySnapshot(cache, type, documents) = T[N]
    BY SnapshotSteps
<1> DEFINE P == {n \in Nat : n <= N => T[n] \in S}
<1>2. 0 \in P
    BY <1>1 DEF AppliedInTurn
<1>3. ASSUME NEW n \in Nat, n \in P PROVE n + 1 \in P
    <2>1. SUFFICES ASSUME n + 1 <= N PROVE T[n + 1] \in S
        OBVIOUS
    <2>2. n + 1 \in 1 .. N /\ (n + 1) - 1 = n /\ T[n] \in S
        BY <1>3, <2>1
    <2>3. T[n + 1] = AppliedNext(T[n], type, documents[n + 1])
        BY <1>1, <2>2 DEF AppliedInTurn
    <2>4. QED
        BY <2>2, <2>3
<1>4. \A n \in Nat : n \in P
    <2> HIDE DEF P
    <2>1. QED
        BY <1>2, <1>3, Induction
<1>5. QED
    BY <1>1, <1>4

-----------------------------------------------------------------------------
(* An answer is what is selected of its source.                            *)

LEMMA AppendedSet ==
    ASSUME NEW R, NEW s \in Seq(R), NEW r \in R
    PROVE  ToSet(Append(s, r)) = ToSet(s) \cup {r}
<1> DEFINE t == Append(s, r)
           n == Len(s)
<1>1. /\ n \in Nat /\ DOMAIN s = 1 .. n /\ DOMAIN t = 1 .. n + 1
      /\ t[n + 1] = r /\ \A i \in 1 .. n : t[i] = s[i]
    OBVIOUS
<1>2. 1 .. n + 1 = 1 .. n \cup {n + 1}
    BY <1>1
<1> HIDE DEF t, n
<1>3. {t[i] : i \in 1 .. n + 1} = {s[i] : i \in 1 .. n} \cup {r}
    BY <1>1, <1>2
<1>4. QED
    BY <1>1, <1>3 DEF ToSet, t

SelectedNext(request, r, selected) ==
    IF Selects(request, r) THEN Append(selected, r) ELSE selected

\* The documents selected of the first so many of the source.
Selections(g, source, request) ==
    /\ g[0] = <<>>
    /\ \A n \in 0 .. Len(source) - 1 : g[n + 1] = SelectedNext(request, source[n + 1], g[n])

LEMMA AnswerSelects ==
    ASSUME NEW R, NEW source \in Seq(R), NEW request
    PROVE  \E g \in [0 .. Len(source) -> Seq(R)] :
              /\ Selections(g, source, request)
              /\ Answer(source, request).documents = g[Len(source)]
<1> DEFINE N     == Len(source)
           S     == Seq(R)
           f     == [z \in Nat \X S |-> IF z[1] + 1 <= N
                                        THEN SelectedNext(request, source[z[1] + 1], z[2])
                                        ELSE z[2]]
           body(selected, n) ==
               IF n = 0 THEN <<>>
               ELSE IF Selects(request, source[n]) THEN Append(selected[n - 1], source[n])
               ELSE selected[n - 1]
           T     == CHOOSE selected : selected = [n \in 0 .. Len(source) |-> body(selected, n)]
<1>1. Answer(source, request).documents = T[Len(source)]
    BY DEF Answer
<1>2. \A selected, n : body(selected, n) =
          IF n = 0 THEN <<>> ELSE SelectedNext(request, source[n], selected[n - 1])
    BY DEF SelectedNext
<1> HIDE DEF body, T
<1>3. ASSUME NEW n \in 1 .. N, NEW s \in S PROVE SelectedNext(request, source[n], s) \in S
    BY DEF SelectedNext
<1>4. f \in [Nat \X S -> S]
    <2>1. ASSUME NEW z \in Nat \X S, z[1] + 1 <= N
          PROVE  SelectedNext(request, source[z[1] + 1], z[2]) \in S
        <3>1. z[1] + 1 \in 1 .. N /\ z[2] \in S
            BY <2>1
        <3> HIDE DEF N, S
        <3>2. QED
            BY <1>3, <3>1
    <2>2. \A z \in Nat \X S : z[2] \in S
        OBVIOUS
    <2> HIDE DEF S, N
    <2>3. QED
        BY <2>1, <2>2
<1>5. <<>> \in S /\ N \in Nat
    OBVIOUS
<1> HIDE DEF N, S
<1>6. PICK g : Iteration(g, f, <<>>, S)
    <2> HIDE DEF f
    <2>1. QED
        BY <1>4, <1>5, Iterates
<1>7. /\ g \in [Nat -> S] /\ g[0] = <<>>
      /\ \A n \in Nat : n + 1 <= N => g[n + 1] = SelectedNext(request, source[n + 1], g[n])
    <2>1. g \in [Nat -> S] /\ g[0] = <<>> /\ \A n \in Nat : g[n + 1] = f[<<n, g[n]>>]
        BY <1>6 DEF Iteration
    <2>2. QED
        BY <2>1
<1> HIDE DEF f
<1> DEFINE h == [n \in 0 .. N |-> g[n]]
<1>8. h = [n \in 0 .. N |-> body(h, n)]
    <2>1. ASSUME NEW n \in 0 .. N PROVE h[n] = body(h, n)
        <3>1. CASE n = 0
            BY <1>2, <1>7, <3>1
        <3>2. CASE n # 0
            <4>1. n - 1 \in Nat /\ n - 1 \in 0 .. N /\ (n - 1) + 1 = n /\ n <= N
                BY <1>5, <3>2
            <4>2. g[n] = SelectedNext(request, source[n], g[n - 1])
                BY <1>7, <4>1
            <4>3. h[n] = g[n] /\ h[n - 1] = g[n - 1]
                BY <4>1
            <4> HIDE DEF h
            <4>4. QED
                BY <1>2, <3>2, <4>2, <4>3
        <3>3. QED
            BY <3>1, <3>2
    <2>2. h = [n \in 0 .. N |-> h[n]]
        OBVIOUS
    <2> HIDE DEF h
    <2>3. QED
        BY <2>1, <2>2
<1>9. T = [n \in 0 .. N |-> body(T, n)]
    <2> HIDE DEF h
    <2>1. QED
        BY <1>8 DEF T, N
<1>10. T[0] = <<>> /\ \A n \in 0 .. N - 1 : T[n + 1] = SelectedNext(request, source[n + 1], T[n])
    <2>1. T[0] = <<>>
        <3>1. 0 \in 0 .. N
            BY <1>5
        <3>2. T[0] = body(T, 0)
            BY <1>9, <3>1
        <3>3. QED
            BY <1>2, <3>2
    <2>2. ASSUME NEW n \in 0 .. N - 1
          PROVE  T[n + 1] = SelectedNext(request, source[n + 1], T[n])
        <3>1. n + 1 \in 0 .. N /\ n + 1 # 0 /\ (n + 1) - 1 = n
            BY <1>5
        <3>2. T[n + 1] = body(T, n + 1)
            BY <1>9, <3>1
        <3>3. QED
            BY <1>2, <3>1, <3>2
    <2>3. QED
        BY <2>1, <2>2
<1> DEFINE P == {n \in Nat : n <= N => T[n] \in S}
<1>11. 0 \in P
    BY <1>5, <1>10
<1>12. ASSUME NEW n \in Nat, n \in P PROVE n + 1 \in P
    <2>1. SUFFICES ASSUME n + 1 <= N PROVE T[n + 1] \in S
        OBVIOUS
    <2>2. n + 1 \in 1 .. N /\ n \in 0 .. N - 1 /\ T[n] \in S
        BY <1>5, <1>12, <2>1
    <2>3. QED
        BY <1>3, <1>10, <2>2
<1>13. \A n \in Nat : n \in P
    <2> HIDE DEF P
    <2>1. QED
        BY <1>11, <1>12, Induction
<1>14. T \in [0 .. N -> S]
    <2>1. \A n \in 0 .. N : T[n] \in S
        BY <1>5, <1>13
    <2>2. T = [n \in 0 .. N |-> T[n]]
        BY <1>9
    <2>3. QED
        BY <2>1, <2>2
<1>15. Selections(T, source, request)
    BY <1>10 DEF Selections, N
<1>16. QED
    BY <1>1, <1>14, <1>15 DEF N, S

\* As sets, the documents of an answer are those of the source that are asked
\* for and granted.
LEMMA AnswerTells ==
    ASSUME NEW R, NEW source \in Seq(R), NEW request
    PROVE  ToSet(Answer(source, request).documents) =
              {r \in ToSet(source) : Selects(request, r)}
<1> DEFINE N == Len(source)
<1>1. PICK g \in [0 .. N -> Seq(R)] :
          /\ Selections(g, source, request)
          /\ Answer(source, request).documents = g[N]
    BY AnswerSelects
<1> DEFINE Told(n) == {source[i] : i \in {j \in 1 .. n : Selects(request, source[j])}}
           P == {n \in Nat : n <= N => ToSet(g[n]) = Told(n)}
<1>2. N \in Nat
    OBVIOUS
<1>3. 0 \in P
    <2>1. g[0] = <<>>
        BY <1>1 DEF Selections
    <2>2. ToSet(<<>>) = {}
        BY DEF ToSet
    <2>3. Told(0) = {}
        OBVIOUS
    <2>4. QED
        BY <2>1, <2>2, <2>3
<1>4. ASSUME NEW n \in Nat, n \in P PROVE n + 1 \in P
    <2>1. SUFFICES ASSUME n + 1 <= N PROVE ToSet(g[n + 1]) = Told(n + 1)
        OBVIOUS
    <2>2. n \in 0 .. N - 1 /\ n \in 0 .. N /\ n + 1 \in 1 .. N /\ ToSet(g[n]) = Told(n)
        BY <1>2, <1>4, <2>1
    <2>3. g[n + 1] = SelectedNext(request, source[n + 1], g[n]) /\ g[n] \in Seq(R)
        BY <1>1, <2>2 DEF Selections
    <2>4. 1 .. n + 1 = 1 .. n \cup {n + 1}
        OBVIOUS
    <2>5. CASE Selects(request, source[n + 1])
        <3>1. Told(n + 1) = Told(n) \cup {source[n + 1]}
            BY <2>4, <2>5
        <3>2. g[n + 1] = Append(g[n], source[n + 1])
            BY <2>3, <2>5 DEF SelectedNext
        <3>3. source[n + 1] \in R
            BY <2>2
        <3> DEFINE s == g[n]
                   r == source[n + 1]
        <3> HIDE DEF s, r
        <3>4. s \in Seq(R) /\ r \in R
            BY <2>3, <3>3 DEF s, r
        <3>5. ToSet(Append(s, r)) = ToSet(s) \cup {r}
            BY ONLY <3>4, AppendedSet
        <3>6. QED
            BY <2>2, <3>1, <3>2, <3>5 DEF s, r
    <2>6. CASE ~Selects(request, source[n + 1])
        <3>1. Told(n + 1) = Told(n)
            BY <2>4, <2>6
        <3>2. g[n + 1] = g[n]
            BY <2>3, <2>6 DEF SelectedNext
        <3>3. QED
            BY <2>2, <3>1, <3>2
    <2>7. QED
        BY <2>5, <2>6
<1>5. \A n \in Nat : n \in P
    <2> HIDE DEF P
    <2>1. QED
        BY <1>3, <1>4, Induction
<1>6. ToSet(g[N]) = Told(N)
    <2>1. N \in P /\ N <= N
        <3> HIDE DEF P, N
        <3>1. QED
            BY <1>2, <1>5
    <2> HIDE DEF Told, N
    <2>2. QED
        BY <2>1
<1>7. ToSet(source) = {source[i] : i \in 1 .. N}
    BY DEF ToSet
<1>8. QED
    BY <1>1, <1>6, <1>7

LEMMA SetListed ==
    ASSUME NEW S, IsFiniteSet(S)
    PROVE  SetToSeq(S) \in Seq(S) /\ ToSet(SetToSeq(S)) = S
<1> DEFINE n == Cardinality(S)
           s == SetToSeq(S)
<1>1. n \in Nat /\ \E f \in [1 .. n -> S] : IsInjective(f)
    BY FS_CardinalityType DEF ExistsBijection, Bijection, Injection
<1>2. s \in [1 .. n -> S] /\ IsInjective(s)
    BY <1>1 DEF SetToSeq
<1> HIDE DEF s
<1>3. s \in Injection(1 .. n, S)
    BY <1>2 DEF Injection
<1>4. Cardinality(1 .. n) = n
    BY <1>1, FS_Interval
<1> HIDE DEF n
<1>5. s \in Surjection(1 .. n, S)
    BY <1>3, <1>4, FS_Injection DEF n
<1>6. ToSet(s) = S
    BY <1>2, <1>5 DEF ToSet, Surjection
<1>7. s \in Seq(S)
    BY <1>1, <1>2
<1>8. QED
    BY <1>6, <1>7 DEF s

-----------------------------------------------------------------------------
(* What bytes belong to, however they are cut.                             *)

\* The bytes of the frames of messages, and what they may decode to.
Bytes(M) == [of : M, at : Nat]
Decoded(M) == M \cup {Undecodable}

LEMMA FrameBytes ==
    ASSUME NEW M, NEW m \in M, Size(m) \in Nat
    PROVE  /\ Frame(m) \in Seq(Bytes(M))
           /\ Len(Frame(m)) = FRAME_HEADER_BYTES + Size(m)
           /\ \A i \in 1 .. FRAME_HEADER_BYTES + Size(m) : Frame(m)[i] = [of |-> m, at |-> i]
<1> DEFINE n == FRAME_HEADER_BYTES + Size(m)
<1>1. n \in Nat
    BY StreamAssumption
<1>2. \A i \in 1 .. n : [of |-> m, at |-> i] \in Bytes(M)
    BY <1>1 DEF Bytes
<1> HIDE DEF n
<1>3. [i \in 1 .. n |-> [of |-> m, at |-> i]] \in Seq(Bytes(M))
    BY <1>1, <1>2
<1>4. Frame(m) = [i \in 1 .. n |-> [of |-> m, at |-> i]]
    BY DEF Frame, n
<1>5. Len(Frame(m)) = n
    BY <1>1, <1>4
<1>6. QED
    BY <1>3, <1>4, <1>5 DEF n

LEMMA FromTyped ==
    ASSUME NEW B, NEW bytes \in Seq(B), NEW i \in 1 .. Len(bytes) + 1
    PROVE  From(bytes, i) \in Seq(B) /\ Len(From(bytes, i)) = Len(bytes) - i + 1
BY SubSeqProperties DEF From

LEMMA DecodeTyped ==
    ASSUME NEW M, NEW payload \in Seq(Bytes(M))
    PROVE  Decode(payload) \in Decoded(M)
<1>1. CASE payload = <<>>
    BY <1>1 DEF Decode, Decoded
<1>2. CASE payload # <<>>
    <2>1. Head(payload) \in Bytes(M)
        BY <1>2
    <2>2. Head(payload).of \in M
        BY <2>1 DEF Bytes
    <2>3. QED
        BY <2>2 DEF Decode, Decoded
<1>3. QED
    BY <1>1, <1>2

\* A frame's length lies between a header's and what there is.
LEMMA CompleteBounds ==
    ASSUME NEW M, \A m \in M : Size(m) \in Nat, NEW bytes \in Seq(Bytes(M)),
           NEW stray \in Nat, Complete(bytes, stray)
    PROVE  FrameLength(bytes, stray) \in FRAME_HEADER_BYTES .. Len(bytes)
<1>1. Len(bytes) >= FRAME_HEADER_BYTES /\ Len(bytes) >= FrameLength(bytes, stray)
    BY DEF Complete
<1>2. bytes # <<>>
    BY <1>1, StreamAssumption
<1>3. Head(bytes).of \in M
    <2>1. Head(bytes) \in Bytes(M)
        BY <1>2
    <2>2. QED
        BY <2>1 DEF Bytes
<1>4. \E n \in Nat : FrameLength(bytes, stray) = FRAME_HEADER_BYTES + n
    BY <1>3 DEF FrameLength
<1>5. QED
    BY <1>1, <1>4, StreamAssumption

LEMMA FirstTyped ==
    ASSUME NEW M, \A m \in M : Size(m) \in Nat, NEW bytes \in Seq(Bytes(M)),
           NEW stray \in Nat, Complete(bytes, stray)
    PROVE  /\ AfterFirst(bytes, stray) \in Seq(Bytes(M))
           /\ Len(AfterFirst(bytes, stray)) = Len(bytes) - FrameLength(bytes, stray)
           /\ Decode(FirstPayload(bytes, stray)) \in Decoded(M)
<1>1. /\ FrameLength(bytes, stray) \in FRAME_HEADER_BYTES .. Len(bytes)
      /\ Len(bytes) \in Nat /\ FRAME_HEADER_BYTES \in Nat \ {0}
    BY CompleteBounds, StreamAssumption
<1>2. FrameLength(bytes, stray) + 1 \in 1 .. Len(bytes) + 1
    BY <1>1
<1>3. /\ AfterFirst(bytes, stray) \in Seq(Bytes(M))
      /\ Len(AfterFirst(bytes, stray)) = Len(bytes) - (FrameLength(bytes, stray) + 1) + 1
    BY <1>2, FromTyped DEF AfterFirst
<1>4. FirstPayload(bytes, stray) \in Seq(Bytes(M))
    <2>1. \A i \in FRAME_HEADER_BYTES + 1 .. FrameLength(bytes, stray) : bytes[i] \in Bytes(M)
        BY <1>1
    <2>2. QED
        BY <1>1, <2>1, SubSeqProperties DEF FirstPayload
<1>5. QED
    BY <1>1, <1>3, <1>4, DecodeTyped

LEMMA FramedTyped ==
    ASSUME NEW M, \A m \in M : Size(m) \in Nat, NEW bytes \in Seq(Bytes(M)), NEW stray \in Nat
    PROVE  /\ Framed(bytes, stray).messages \in Seq(Decoded(M))
           /\ Framed(bytes, stray).rest \in Seq(Bytes(M))
<1> DEFINE S == [messages : Seq(Decoded(M)), rest : Seq(Bytes(M))]
<1>1. [messages |-> <<>>, rest |-> bytes] \in S
    OBVIOUS
<1>2. ASSUME NEW t \in S PROVE Turned(t, stray) \in S
    <2>1. t.messages \in Seq(Decoded(M)) /\ t.rest \in Seq(Bytes(M))
        OBVIOUS
    <2>2. CASE Complete(t.rest, stray)
        <3>1. /\ Decode(FirstPayload(t.rest, stray)) \in Decoded(M)
              /\ AfterFirst(t.rest, stray) \in Seq(Bytes(M))
            BY <2>1, <2>2, FirstTyped
        <3>2. QED
            BY <2>1, <2>2, <3>1 DEF Turned
    <2>3. CASE ~Complete(t.rest, stray)
        BY <2>3 DEF Turned
    <2>4. QED
        BY <2>2, <2>3
<1> HIDE DEF S
<1>3. Framed(bytes, stray) \in S
    BY <1>1, <1>2, FramedKeeps
<1>4. QED
    BY <1>3 DEF S

-----------------------------------------------------------------------------
(* Calls on the stream keep that its bytes are bytes of messages.          *)

StreamOf(M, w, b, r) == w \in Seq(Bytes(M)) /\ b \in Seq(Bytes(M)) /\ r \in Seq(Decoded(M))

LEMMA StreamMonotone ==
    ASSUME NEW M, NEW N, M \subseteq N, NEW w, NEW b, NEW r, StreamOf(M, w, b, r)
    PROVE  StreamOf(N, w, b, r)
<1>1. Bytes(M) \subseteq Bytes(N) /\ Decoded(M) \subseteq Decoded(N)
    BY DEF Bytes, Decoded
<1>2. Seq(Bytes(M)) \subseteq Seq(Bytes(N)) /\ Seq(Decoded(M)) \subseteq Seq(Decoded(N))
    BY <1>1, SeqMonotonic
<1>3. QED
    BY <1>2 DEF StreamOf

LEMMA PublishKeeps ==
    ASSUME NEW M, NEW m \in M, Size(m) \in Nat,
           StreamOf(M, wire, buffer, received), Publish(m)
    PROVE  StreamOf(M, wire', buffer', received')
<1>1. Frame(m) \in Seq(Bytes(M)) /\ Len(Frame(m)) \in Nat
    BY FrameBytes
<1>2. CASE Send(m)
    BY <1>1, <1>2 DEF Send, StreamOf
<1>3. CASE SendFails(m)
    <2>1. PICK n \in TornAfter \cap 0 .. Len(Frame(m)) : wire' = wire \o SubSeq(Frame(m), 1, n)
        BY <1>3 DEF SendFails
    <2>2. n \in 0 .. Len(Frame(m)) /\ \A i \in 1 .. n : Frame(m)[i] \in Bytes(M)
        BY <1>1
    <2>3. SubSeq(Frame(m), 1, n) \in Seq(Bytes(M))
        BY <1>1, <2>2, SubSeqProperties
    <2>4. QED
        BY <1>3, <2>1, <2>3 DEF SendFails, StreamOf
<1>4. QED
    BY <1>2, <1>3 DEF Publish

LEMMA ReadKeeps ==
    ASSUME NEW M, \A m \in M : Size(m) \in Nat,
           StreamOf(M, wire, buffer, received), Push \/ Receive \/ ReceiveFails
    PROVE  StreamOf(M, wire', buffer', received')
<1>1. CASE Push
    <2>1. PICK n \in 1 .. Len(wire), stray \in StrayLengths :
              LET framed == Framed(buffer \o SubSeq(wire, 1, n), stray) IN
              /\ wire' = From(wire, n + 1)
              /\ buffer' = framed.rest
              /\ received' = received \o framed.messages
        BY <1>1 DEF Push
    <2>2. n + 1 \in 1 .. Len(wire) + 1 /\ stray \in Nat /\ wire \in Seq(Bytes(M))
        BY StreamAssumption DEF StreamOf
    <2>3. wire' \in Seq(Bytes(M))
        BY <2>1, <2>2, FromTyped
    <2>4. SubSeq(wire, 1, n) \in Seq(Bytes(M))
        <3>1. \A i \in 1 .. n : wire[i] \in Bytes(M)
            BY <2>2
        <3>2. QED
            BY <2>2, <3>1, SubSeqProperties
    <2>5. buffer \o SubSeq(wire, 1, n) \in Seq(Bytes(M))
        BY <2>4 DEF StreamOf
    <2>6. /\ Framed(buffer \o SubSeq(wire, 1, n), stray).messages \in Seq(Decoded(M))
          /\ Framed(buffer \o SubSeq(wire, 1, n), stray).rest \in Seq(Bytes(M))
        BY <2>2, <2>5, FramedTyped
    <2>7. QED
        BY <2>1, <2>3, <2>6 DEF StreamOf
<1>2. CASE Receive
    <2>1. PICK stray \in StrayLengths :
              /\ Complete(wire, stray)
              /\ wire' = AfterFirst(wire, stray)
              /\ received' = Append(received, Decode(FirstPayload(wire, stray)))
        BY <1>2 DEF Receive
    <2>2. stray \in Nat /\ wire \in Seq(Bytes(M))
        BY StreamAssumption DEF StreamOf
    <2>3. /\ AfterFirst(wire, stray) \in Seq(Bytes(M))
          /\ Decode(FirstPayload(wire, stray)) \in Decoded(M)
        BY <2>1, <2>2, FirstTyped
    <2>4. QED
        BY <1>2, <2>1, <2>3 DEF Receive, StreamOf
<1>3. CASE ReceiveFails
    <2>1. PICK n \in 0 .. Len(wire) : wire' = From(wire, n + 1)
        BY <1>3 DEF ReceiveFails
    <2>2. n + 1 \in 1 .. Len(wire) + 1 /\ wire \in Seq(Bytes(M))
        BY DEF StreamOf
    <2>3. wire' \in Seq(Bytes(M))
        BY <2>1, <2>2, FromTyped
    <2>4. QED
        BY <1>3, <2>3 DEF ReceiveFails, StreamOf
<1>4. QED
    BY <1>1, <1>2, <1>3

LEMMA HandledKeeps ==
    ASSUME NEW M, StreamOf(M, wire, buffer, received), Handled
    PROVE  StreamOf(M, wire', buffer', received') /\ Head(received) \in Decoded(M)
BY DEF StreamOf, Handled

LEMMA NewStreamOf ==
    ASSUME NEW M PROVE StreamOf(M, <<>>, <<>>, <<>>)
BY DEF StreamOf

-----------------------------------------------------------------------------
(* What messages say, and what applying them makes of a cache.             *)

\* The records of what a cache has held, and the messages that hold no other.
RecordsOf(cache) == {Record(e) : e \in {x \in cache : Registered(x.type)}}

Published(cache) ==
    {m \in Messages :
        /\ m.kind \in {"put", "delete", "snapshot", "answer"}
        /\ m.kind = "put" => m.document \in RecordsOf(cache)
        /\ m.kind = "snapshot" => m.documents \in Seq(RecordsOf(cache))}

\* The documents a follower may have of a cache.
Copies(cache) == Seen(cache) \cap [type : {Type}, key : Keys, payload : Legible]

LEMMA PublishedMonotone ==
    ASSUME NEW a, NEW b, a \subseteq b
    PROVE  /\ Published(a) \subseteq Published(b)
           /\ Seen(a) \subseteq Seen(b)
<1>1. RecordsOf(a) \subseteq RecordsOf(b)
    BY DEF RecordsOf
<1>2. Seq(RecordsOf(a)) \subseteq Seq(RecordsOf(b))
    BY <1>1, SeqMonotonic
<1>3. Published(a) \subseteq Published(b)
    BY <1>1, <1>2 DEF Published
<1>4. QED
    BY <1>3 DEF Seen

LEMMA PutKeepsCopies ==
    ASSUME NEW h, h \subseteq Documents, NEW cache \in SUBSET Copies(h),
           NEW document \in RecordsOf(h)
    PROVE  ApplyPut(cache, Type, document) \in [ok : BOOLEAN, cache : SUBSET Copies(h)]
<1> DEFINE copy == [type |-> Type, key |-> document.key, payload |-> document.payload]
<1>1. PICK e \in h : Registered(e.type) /\ document = Record(e)
    BY DEF RecordsOf
<1>2. e \in Envelopes
    BY ReplicationAssumption
<1>3. /\ document.schema = SchemaOf(e.type) /\ document.key = e.key
      /\ document.payload = e.payload /\ e.key \in Keys
      /\ copy = [e EXCEPT !.type = Type]
    BY <1>1, <1>2 DEF Record, Envelopes
<1>4. CASE /\ Registered(Type) /\ document.schema = SchemaOf(Type)
           /\ document.payload \in Legible
    <2>1. copy \in Seen(h)
        BY <1>1, <1>3, <1>4 DEF Seen
    <2>2. copy \in Copies(h)
        BY <1>3, <1>4, <2>1 DEF Copies
    <2> HIDE DEF copy
    <2>3. Stored(cache, copy) \subseteq Copies(h)
        BY <2>2 DEF Stored
    <2>4. ApplyPut(cache, Type, document) = Ok(Stored(cache, copy))
        BY <1>4 DEF ApplyPut, copy
    <2>5. QED
        BY <2>3, <2>4 DEF Ok
<1>5. CASE ~(/\ Registered(Type) /\ document.schema = SchemaOf(Type)
             /\ document.payload \in Legible)
    BY <1>5 DEF ApplyPut, Err
<1>6. QED
    BY <1>4, <1>5

LEMMA SnapshotKeepsCopies ==
    ASSUME NEW h, h \subseteq Documents, NEW cache \in SUBSET Copies(h),
           NEW documents \in Seq(RecordsOf(h))
    PROVE  ApplySnapshot(cache, Type, documents) \in [ok : BOOLEAN, cache : SUBSET Copies(h)]
<1> DEFINE S == [ok : BOOLEAN, cache : SUBSET Copies(h)]
<1>1. Ok(cache) \in S
    BY DEF Ok
<1>2. ASSUME NEW r \in S, NEW i \in 1 .. Len(documents)
      PROVE  AppliedNext(r, Type, documents[i]) \in S
    <2>1. r.cache \in SUBSET Copies(h) /\ documents[i] \in RecordsOf(h)
        OBVIOUS
    <2>2. ApplyPut(r.cache, Type, documents[i]) \in S
        BY <2>1, PutKeepsCopies
    <2> HIDE DEF S
    <2>3. QED
        BY <2>2 DEF AppliedNext
<1>3. Len(documents) \in Nat
    OBVIOUS
<1> HIDE DEF S
<1>4. ApplySnapshot(cache, Type, documents) \in S
    BY <1>1, <1>2, <1>3, SnapshotKeeps
<1>5. QED
    BY <1>4 DEF S

LEMMA DeleteKeepsCopies ==
    ASSUME NEW h, NEW cache \in SUBSET Copies(h), NEW m
    PROVE  ApplyDelete(cache, Type, m).cache \in SUBSET Copies(h)
BY DEF ApplyDelete, Ok, Err

-----------------------------------------------------------------------------
(* What the origin publishes.                                              *)

LEMMA PutPublished ==
    ASSUME NEW cache, NEW e \in Documents, e \in cache, Registered(e.type)
    PROVE  PutMessage(e) \in Published(cache)
<1>1. PutMessage(e) \in Messages
    BY DEF Messages, Mentioned
<1>2. PutMessage(e).kind = "put" /\ PutMessage(e).document \in RecordsOf(cache)
    BY DEF PutMessage, RecordsOf
<1>3. QED
    BY <1>1, <1>2 DEF Published

LEMMA DeletePublished ==
    ASSUME NEW cache, NEW e \in Documents, Registered(e.type)
    PROVE  DeleteMessage(SchemaOf(e.type), e.key) \in Published(cache)
<1>1. DeleteMessage(SchemaOf(e.type), e.key) \in Messages
    BY DEF Messages, Mentioned
<1>2. DeleteMessage(SchemaOf(e.type), e.key).kind = "delete"
    BY DEF DeleteMessage
<1>3. QED
    BY <1>1, <1>2 DEF Published

LEMMA SnapshotPublished ==
    ASSUME NEW cache, cache \subseteq Documents, IsFiniteSet(cache),
           NEW schemas \in {KnownSchemas, {SchemaOf(Type)}},
           NEW m \in SnapshotMessages(cache, schemas, Keys)
    PROVE  m \in Published(cache)
<1> DEFINE told    == {x \in cache : SchemaOf(x.type) \in schemas /\ x.key \in Keys}
           records == {Record(e) : e \in told}
<1>1. \A e \in cache : Registered(e.type)
    BY DEF SnapshotMessages
<1>2. PICK documents \in SetToSeqs(records) : m = [kind |-> "snapshot", documents |-> documents]
    BY <1>1 DEF SnapshotMessages
<1>3. m \in Messages
    <2>1. cache \in SUBSET Mentioned
        BY <1>1 DEF Mentioned
    <2>2. SnapshotMessages(cache, schemas, Keys) \subseteq Messages
        BY <2>1 DEF Messages, Snapshots
    <2>3. QED
        BY <2>2
<1>4. records \subseteq RecordsOf(cache)
    BY <1>1 DEF RecordsOf
<1>5. IsFiniteSet(records)
    <2> DEFINE f == [e \in told |-> Record(e)]
    <2>1. IsFiniteSet(told)
        BY FS_Subset
    <2>2. f \in Surjection(told, records)
        BY DEF Surjection
    <2> HIDE DEF f, told, records
    <2>3. QED
        BY <2>1, <2>2, FS_Surjection
<1> HIDE DEF records
<1>6. Cardinality(records) \in Nat
    BY <1>5, FS_CardinalityType
<1>7. documents \in [1 .. Cardinality(records) -> records]
    BY DEF SetToSeqs
<1>8. documents \in Seq(RecordsOf(cache))
    BY <1>4, <1>6, <1>7
<1>9. QED
    BY <1>2, <1>3, <1>8 DEF Published

LEMMA AnswerPublished ==
    ASSUME NEW cache, cache \subseteq Documents, \A e \in cache : Registered(e.type),
           NEW q \in Queries
    PROVE  Answer(Source(cache), Request(q)) \in Published(cache)
<1>1. cache \in SUBSET Mentioned
    BY DEF Mentioned
<1>2. Answer(Source(cache), Request(q)) \in Messages
    <2>1. Answer(Source(cache), Request(q)) \in Answers
        BY <1>1 DEF Answers
    <2>2. QED
        BY <2>1 DEF Messages
<1>3. Answer(Source(cache), Request(q)).kind = "answer"
    BY DEF Answer
<1>4. QED
    BY <1>2, <1>3 DEF Published

-----------------------------------------------------------------------------
(* The inductive invariant: what is on its way to the follower mentions no *)
(* document that the origin has not held.                                  *)

ReplicationInv ==
    /\ origin \subseteq held /\ held \subseteq Documents /\ IsFiniteSet(origin)
    /\ \A e, f \in origin : e.type = f.type /\ e.key = f.key => e = f
    /\ replica \subseteq Copies(held)
    /\ StreamOf(Published(held), wire, buffer, received)
    /\ asking \in Queries \cup {NoQuery}
    /\ {joined, refused, failed} \subseteq BOOLEAN
    /\ missed \subseteq Keys

LEMMA InvImplies == ASSUME ReplicationInv PROVE ReplicationTypeOK /\ NothingInvented
BY DEF ReplicationInv, ReplicationTypeOK, NothingInvented, Copies

LEMMA PublishedSizes == \A h : \A m \in Published(h) : Size(m) \in Nat
BY SizeAssumption DEF Published

LEMMA InvInit == ASSUME Init PROVE ReplicationInv
<1>1. IsFiniteSet({})
    BY FS_EmptySet
<1>2. QED
    BY <1>1, NewStreamOf DEF Init, InitStream, ReplicationInv

\* A change of the origin and the message that tells of it.
LEMMA ChangeKeeps ==
    ASSUME ReplicationInv, NEW cache, Changed(cache),
           cache \subseteq Documents, IsFiniteSet(cache),
           \A e, f \in cache : e.type = f.type /\ e.key = f.key => e = f,
           UNCHANGED streamVars \/ \E m \in Published(held') : Publish(m)
    PROVE  ReplicationInv'
<1>1. origin' = cache /\ held' = held \cup cache /\ UNCHANGED <<replica, asking, joined,
                                                              refused, missed>>
    BY DEF Changed
<1>2. held \subseteq held' /\ held' \subseteq Documents /\ origin' \subseteq held'
    BY <1>1 DEF ReplicationInv
<1>3. Published(held) \subseteq Published(held') /\ Seen(held) \subseteq Seen(held')
    BY <1>2, PublishedMonotone
<1>4. replica' \subseteq Copies(held')
    BY <1>1, <1>3 DEF ReplicationInv, Copies
<1>5. StreamOf(Published(held'), wire', buffer', received') /\ failed' \in BOOLEAN
    <2> DEFINE M == Published(held')
    <2>1. StreamOf(M, wire, buffer, received) /\ failed \in BOOLEAN
        BY <1>3, StreamMonotone DEF ReplicationInv
    <2>2. CASE UNCHANGED streamVars
        BY <2>1, <2>2 DEF streamVars
    <2>3. ASSUME NEW m \in M, Publish(m)
          PROVE  StreamOf(M, wire', buffer', received') /\ failed' \in BOOLEAN
        <3>1. Size(m) \in Nat
            BY PublishedSizes
        <3>2. failed' \in BOOLEAN
            BY <2>1, <2>3 DEF Publish, Send, SendFails
        <3> HIDE DEF M
        <3>3. QED
            BY <2>1, <2>3, <3>1, <3>2, PublishKeeps
    <2>4. QED
        BY <2>2, <2>3
<1>6. QED
    BY <1>1, <1>2, <1>4, <1>5 DEF ReplicationInv

LEMMA PutKeeps == ASSUME ReplicationInv, Put PROVE ReplicationInv'
<1>1. PICK e \in Documents :
          /\ Changed(Stored(origin, e))
          /\ IF Registered(e.type) THEN Publish(PutMessage(e)) ELSE UNCHANGED streamVars
    BY DEF Put
<1> DEFINE cache == Stored(origin, e)
<1>2. /\ cache \subseteq Documents /\ e \in cache
      /\ \A x, y \in cache : x.type = y.type /\ x.key = y.key => x = y
    BY DEF Stored, Slot, ReplicationInv
<1>3. IsFiniteSet(cache)
    <2>1. IsFiniteSet(origin \ Slot(origin, e.type, e.key))
        BY FS_Subset DEF ReplicationInv
    <2>2. QED
        BY <2>1, FS_AddElement DEF Stored
<1>4. Changed(cache)
    BY <1>1
<1> HIDE DEF cache
<1>5. UNCHANGED streamVars \/ \E m \in Published(held') : Publish(m)
    <2>1. CASE Registered(e.type)
        <3>1. e \in held'
            BY <1>2, <1>4 DEF Changed
        <3>2. PutMessage(e) \in Published(held')
            BY <2>1, <3>1, PutPublished
        <3>3. QED
            BY <1>1, <2>1, <3>2
    <2>2. CASE ~Registered(e.type)
        BY <1>1, <2>2
    <2>3. QED
        BY <2>1, <2>2
<1>6. QED
    BY <1>2, <1>3, <1>4, <1>5, ChangeKeeps

LEMMA DeleteKeeps == ASSUME ReplicationInv, Delete PROVE ReplicationInv'
<1>1. PICK e \in origin :
          /\ Registered(e.type)
          /\ Changed(origin \ {e})
          /\ Publish(DeleteMessage(SchemaOf(e.type), e.key))
    BY DEF Delete
<1> DEFINE cache == origin \ {e}
<1>2. /\ cache \subseteq Documents /\ e \in Documents
      /\ \A x, y \in cache : x.type = y.type /\ x.key = y.key => x = y
    BY DEF ReplicationInv
<1>3. IsFiniteSet(cache)
    BY FS_RemoveElement DEF ReplicationInv
<1>4. Changed(cache)
    BY <1>1
<1>5. \E m \in Published(held') : Publish(m)
    BY <1>1, <1>2, DeletePublished
<1> HIDE DEF cache
<1>6. QED
    BY <1>2, <1>3, <1>4, <1>5, ChangeKeeps

\* Serving a snapshot or a query publishes one message or none.
LEMMA ServePublishes ==
    ASSUME ReplicationInv, ServeSnapshot \/ ServeQuery
    PROVE  UNCHANGED streamVars \/ \E m \in Published(origin) : Publish(m)
<1>1. origin \subseteq Documents /\ IsFiniteSet(origin)
    BY DEF ReplicationInv
<1>2. CASE ServeSnapshot
    <2>1. PICK schemas \in {KnownSchemas, {SchemaOf(Type)}} :
              \/ \E m \in SnapshotMessages(origin, schemas, Keys) : Publish(m)
              \/ UNCHANGED streamVars
        BY <1>2 DEF ServeSnapshot
    <2>2. \A m \in SnapshotMessages(origin, schemas, Keys) : m \in Published(origin)
        BY <1>1, SnapshotPublished
    <2>3. QED
        BY <2>1, <2>2
<1>3. CASE ServeQuery
    <2>1. CASE /\ \A e \in origin : Registered(e.type)
               /\ Servable(Source(origin), KnownSchemas)
        <3>1. /\ Head(requests) \in Queries
              /\ Publish(Answer(Source(origin), Request(Head(requests))))
            BY <1>3, <2>1 DEF ServeQuery
        <3>2. Answer(Source(origin), Request(Head(requests))) \in Published(origin)
            BY <1>1, <2>1, <3>1, AnswerPublished
        <3>3. QED
            BY <3>1, <3>2
    <2>2. CASE ~(/\ \A e \in origin : Registered(e.type)
                 /\ Servable(Source(origin), KnownSchemas))
        BY <1>3, <2>2 DEF ServeQuery
    <2>3. QED
        BY <2>1, <2>2
<1>4. QED
    BY <1>2, <1>3

\* Serving a snapshot or a query changes the stream only.
LEMMA ServeKeeps == ASSUME ReplicationInv, ServeSnapshot \/ ServeQuery PROVE ReplicationInv'
<1>1. UNCHANGED <<origin, replica, asking, joined, refused, missed, held>>
    BY DEF ServeSnapshot, ServeQuery, Take
<1>2. origin \subseteq Documents /\ IsFiniteSet(origin)
    BY DEF ReplicationInv
<1>3. UNCHANGED streamVars \/ \E m \in Published(origin) : Publish(m)
    BY ServePublishes
<1>4. Published(origin) \subseteq Published(held)
    BY PublishedMonotone DEF ReplicationInv
<1>5. StreamOf(Published(held), wire', buffer', received') /\ failed' \in BOOLEAN
    <2>1. CASE UNCHANGED streamVars
        BY <2>1 DEF streamVars, ReplicationInv
    <2>2. ASSUME NEW m \in Published(held), Publish(m)
          PROVE  StreamOf(Published(held), wire', buffer', received') /\ failed' \in BOOLEAN
        <3>1. Size(m) \in Nat /\ StreamOf(Published(held), wire, buffer, received)
            BY PublishedSizes DEF ReplicationInv
        <3>2. failed' \in BOOLEAN
            BY <2>2 DEF Publish, Send, SendFails, ReplicationInv
        <3>3. QED
            BY <2>2, <3>1, <3>2, PublishKeeps
    <2>3. QED
        BY <1>3, <1>4, <2>1, <2>2
<1>6. QED
    BY <1>1, <1>5 DEF ReplicationInv

LEMMA StreamStepKeeps ==
    ASSUME ReplicationInv, Push \/ Receive \/ ReceiveFails, UNCHANGED programVars
    PROVE  ReplicationInv'
<1>1. StreamOf(Published(held), wire', buffer', received')
    BY PublishedSizes, ReadKeeps DEF ReplicationInv
<1>2. failed' \in BOOLEAN
    BY DEF ReplicationInv, Push, Receive, ReceiveFails
<1>3. QED
    BY <1>1, <1>2 DEF ReplicationInv, programVars

\* What is applied mentions documents that the origin has held.
LEMMA HandleKeeps == ASSUME ReplicationInv, Handle PROVE ReplicationInv'
<1> DEFINE m == Head(received)
<1>1. UNCHANGED <<origin, held>> /\ Handled
    BY DEF Handle
<1>2. /\ StreamOf(Published(held), wire', buffer', received')
      /\ m \in Published(held) \cup {Undecodable}
    BY <1>1, HandledKeeps DEF ReplicationInv, Decoded
<1>3. failed' \in BOOLEAN
    BY <1>1 DEF Handled, ReplicationInv
<1>4. held \subseteq Documents /\ replica \in SUBSET Copies(held)
    BY DEF ReplicationInv
<1>5. /\ replica' \subseteq Copies(held) /\ asking' \in Queries \cup {NoQuery}
      /\ {joined', refused'} \subseteq BOOLEAN /\ missed' \subseteq Keys
    <2>1. CASE m.kind = "put"
        <3>1. m.document \in RecordsOf(held)
            BY <1>2, <2>1 DEF Published, Undecodable
        <3> DEFINE result == ApplyPut(replica, Type, m.document)
        <3>2. result \in [ok : BOOLEAN, cache : SUBSET Copies(held)]
            BY <1>4, <3>1, PutKeepsCopies
        <3>3. /\ replica' = result.cache
              /\ refused' = (refused \/ (m.document.schema = SchemaOf(Type) /\ ~result.ok))
              /\ UNCHANGED <<joined, missed, asking>>
            BY <2>1 DEF Handle
        <3> HIDE DEF result, m
        <3>4. QED
            BY <3>2, <3>3 DEF ReplicationInv
    <2>2. CASE m.kind = "delete"
        <3>1. /\ replica' = ApplyDelete(replica, Type, m).cache
              /\ missed' = IF m.schema = SchemaOf(Type) THEN missed \ {m.key} ELSE missed
              /\ UNCHANGED <<joined, refused, asking>>
            BY <2>2 DEF Handle
        <3> HIDE DEF m
        <3>2. QED
            BY <1>4, <3>1, DeleteKeepsCopies DEF ReplicationInv
    <2>3. CASE m.kind = "snapshot"
        <3>1. m.documents \in Seq(RecordsOf(held))
            BY <1>2, <2>3 DEF Published, Undecodable
        <3> DEFINE result == ApplySnapshot(replica, Type, m.documents)
        <3>2. result \in [ok : BOOLEAN, cache : SUBSET Copies(held)]
            BY <1>4, <3>1, SnapshotKeepsCopies
        <3>3. /\ replica' = result.cache
              /\ refused' = (refused \/ ~result.ok)
              /\ joined' = (joined \/ result.ok)
              /\ UNCHANGED <<missed, asking>>
            BY <2>3 DEF Handle
        <3> HIDE DEF result, m
        <3>4. QED
            BY <3>2, <3>3 DEF ReplicationInv
    <2>4. CASE m.kind \in {"answer", "undecodable"}
        <3>1. UNCHANGED <<replica, joined, refused, missed>> /\ asking' \in {asking, NoQuery}
            BY <2>4 DEF Handle, Judged
        <3>2. QED
            BY <3>1 DEF ReplicationInv
    <2>5. QED
        BY <2>1, <2>2, <2>3, <2>4 DEF Handle
<1>6. QED
    BY <1>1, <1>2, <1>3, <1>5 DEF ReplicationInv

\* Asking and connecting again.
LEMMA AskKeeps == ASSUME ReplicationInv, NEW q \in Queries, Ask(q) PROVE ReplicationInv'
BY DEF ReplicationInv, Ask, streamVars

LEMMA ReconnectKeeps == ASSUME ReplicationInv, Reconnect PROVE ReplicationInv'
<1>1. /\ UNCHANGED <<origin, replica, held>>
      /\ wire' = <<>> /\ buffer' = <<>> /\ received' = <<>> /\ failed' = FALSE
      /\ asking' = NoQuery /\ joined' = FALSE /\ refused' = FALSE
    BY DEF Reconnect, NewStream
<1>2. StreamOf(Published(held), wire', buffer', received')
    BY <1>1, NewStreamOf
<1>3. missed' \subseteq Keys
    BY DEF Reconnect, ReplicationInv, Copies
<1>4. QED
    BY <1>1, <1>2, <1>3 DEF ReplicationInv

LEMMA InvStep == ASSUME ReplicationInv, [Next]_vars PROVE ReplicationInv'
<1>1. CASE UNCHANGED vars
    BY <1>1 DEF vars, streamVars, programVars, ReplicationInv
<1>2. QED
    BY <1>1, PutKeeps, DeleteKeeps, ServeKeeps, StreamStepKeeps, HandleKeeps, AskKeeps,
       ReconnectKeeps
    DEF Next

\* The state of the origin, the follower and the stream between them is always
\* of its type.
THEOREM ReplicationTypeCorrect == Spec => []ReplicationTypeOK
<1>1. Init => ReplicationInv
    BY InvInit
<1>2. ReplicationInv /\ [Next]_vars => ReplicationInv'
    BY InvStep
<1>3. ReplicationInv => ReplicationTypeOK
    BY InvImplies
<1>4. QED
    BY <1>1, <1>2, <1>3, PTL DEF Spec

\* A follower never holds a document that the origin has not held under that
\* key and a type of that schema, however the stream was cut, whatever reads
\* and writes failed inside a frame and whatever was then taken for a header.
THEOREM FollowerInventsNothing == Spec => []NothingInvented
<1>1. Init => ReplicationInv
    BY InvInit
<1>2. ReplicationInv /\ [Next]_vars => ReplicationInv'
    BY InvStep
<1>3. ReplicationInv => NothingInvented
    BY InvImplies
<1>4. QED
    BY <1>1, <1>2, <1>3, PTL DEF Spec

-----------------------------------------------------------------------------
(* Streams that hold whole frames.                                         *)

\* The frames of the messages, one after the other, and where each ends.
Cuts(cut, bytes, msgs) ==
    /\ cut[1] = 0 /\ cut[Len(msgs) + 1] = Len(bytes)
    /\ \A i, j \in 1 .. Len(msgs) + 1 : i <= j => cut[i] <= cut[j]
    /\ \A i \in 1 .. Len(msgs) :
          /\ cut[i + 1] = cut[i] + FRAME_HEADER_BYTES + Size(msgs[i])
          /\ \A k \in 1 .. FRAME_HEADER_BYTES + Size(msgs[i]) :
                bytes[cut[i] + k] = [of |-> msgs[i], at |-> k]

IsFrames(bytes, msgs) == \E cut \in [1 .. Len(msgs) + 1 -> Nat] : Cuts(cut, bytes, msgs)

Sized(M) == \A m \in M : Size(m) \in Nat \ {0}

LEMMA NoFrames == IsFrames(<<>>, <<>>)
<1> DEFINE cut == [i \in 1 .. 1 |-> 0]
<1>1. cut \in [1 .. Len(<<>>) + 1 -> Nat] /\ Cuts(cut, <<>>, <<>>)
    BY DEF Cuts
<1>2. QED
    BY <1>1 DEF IsFrames

LEMMA Reaches ==
    \A a, b, k \in Nat, n \in Int :
        1 <= k /\ k <= b /\ a + b <= n => a + k \in 1 .. n
OBVIOUS

LEMMA FramesThenFrame ==
    ASSUME NEW M, Sized(M), NEW bytes \in Seq(Bytes(M)), NEW msgs \in Seq(M), NEW m \in M,
           IsFrames(bytes, msgs)
    PROVE  IsFrames(bytes \o Frame(m), Append(msgs, m))
<1> DEFINE n    == Len(msgs)
           L    == FRAME_HEADER_BYTES + Size(m)
           more == bytes \o Frame(m)
           all  == Append(msgs, m)
<1>1. n \in Nat /\ L \in Nat /\ Len(bytes) \in Nat /\ L >= 1 /\ FRAME_HEADER_BYTES \in Nat
    BY StreamAssumption DEF Sized
<1>2. PICK cut \in [1 .. n + 1 -> Nat] : Cuts(cut, bytes, msgs)
    BY DEF IsFrames
<1>3. /\ Frame(m) \in Seq(Bytes(M)) /\ Len(Frame(m)) = L
      /\ \A k \in 1 .. L : Frame(m)[k] = [of |-> m, at |-> k]
    BY FrameBytes DEF Sized
<1>4. /\ Len(more) = Len(bytes) + L
      /\ \A i \in 1 .. Len(bytes) : more[i] = bytes[i]
      /\ \A k \in 1 .. L : more[Len(bytes) + k] = [of |-> m, at |-> k]
    <2>1. /\ Len(more) = Len(bytes) + L
          /\ \A i \in 1 .. Len(bytes) + L :
                more[i] = IF i <= Len(bytes) THEN bytes[i] ELSE Frame(m)[i - Len(bytes)]
        BY <1>3, ConcatProperties
    <2> HIDE DEF more, L
    <2>2. ASSUME NEW k \in 1 .. L PROVE more[Len(bytes) + k] = [of |-> m, at |-> k]
        <3>1. /\ Len(bytes) + k \in 1 .. Len(bytes) + L /\ ~(Len(bytes) + k <= Len(bytes))
              /\ (Len(bytes) + k) - Len(bytes) = k
            BY <1>1
        <3>2. QED
            BY <1>3, <2>1, <3>1
    <2>3. QED
        BY <1>1, <2>1, <2>2
<1>5. /\ Len(all) = n + 1 /\ all[n + 1] = m
      /\ \A i \in 1 .. n : all[i] = msgs[i]
    OBVIOUS
<1> DEFINE new == [i \in 1 .. n + 2 |-> IF i = n + 2 THEN Len(bytes) + L ELSE cut[i]]
<1>6. /\ new \in [1 .. Len(all) + 1 -> Nat]
      /\ new[n + 2] = Len(bytes) + L
      /\ \A i \in 1 .. n + 1 : new[i] = cut[i] /\ cut[i] \in Nat
    <2> HIDE DEF n, L, all
    <2>1. Len(all) + 1 = n + 2 /\ n + 2 \in 1 .. n + 2 /\ Len(bytes) + L \in Nat
        BY <1>1, <1>5
    <2>2. ASSUME NEW i \in 1 .. n + 1 PROVE new[i] = cut[i] /\ cut[i] \in Nat
        <3>1. i \in 1 .. n + 2 /\ i # n + 2
            BY <1>1
        <3>2. QED
            BY <1>2, <3>1
    <2>3. ASSUME NEW i \in 1 .. n + 2 PROVE new[i] \in Nat
        <3>1. CASE i = n + 2
            BY <2>1, <3>1
        <3>2. CASE i # n + 2
            BY <1>1, <2>2, <3>2
        <3>3. QED
            BY <3>1, <3>2
    <2>4. new \in [1 .. n + 2 -> Nat]
        BY <2>3
    <2>5. QED
        BY <2>1, <2>2, <2>4
<1> HIDE DEF new, all, more, L, n
<1>7. /\ cut[1] = 0 /\ cut[n + 1] = Len(bytes)
      /\ \A i, j \in 1 .. n + 1 : i <= j => cut[i] <= cut[j]
    BY <1>2 DEF Cuts, n
<1>8. new[1] = 0 /\ new[Len(all) + 1] = Len(more)
    BY <1>1, <1>4, <1>5, <1>6, <1>7
<1>9. ASSUME NEW i \in 1 .. Len(all) + 1, NEW j \in 1 .. Len(all) + 1, i <= j
      PROVE  new[i] <= new[j]
    <2>1. CASE j = n + 2
        <3>1. CASE i = n + 2
            BY <1>1, <1>6, <2>1, <3>1
        <3>2. CASE i # n + 2
            <4>1. i \in 1 .. n + 1 /\ n + 1 \in 1 .. n + 1 /\ i <= n + 1
                BY <1>1, <1>5, <3>2
            <4>2. cut[i] <= Len(bytes)
                BY <1>7, <4>1
            <4>3. QED
                BY <1>1, <1>6, <2>1, <4>1, <4>2
        <3>3. QED
            BY <3>1, <3>2
    <2>2. CASE j # n + 2
        <3>1. i \in 1 .. n + 1 /\ j \in 1 .. n + 1
            BY <1>1, <1>5, <1>9, <2>2
        <3>2. QED
            BY <1>6, <1>7, <1>9, <3>1
    <2>3. QED
        BY <2>1, <2>2
<1>10. ASSUME NEW i \in 1 .. Len(all)
       PROVE  /\ new[i + 1] = new[i] + FRAME_HEADER_BYTES + Size(all[i])
              /\ \A k \in 1 .. FRAME_HEADER_BYTES + Size(all[i]) :
                    more[new[i] + k] = [of |-> all[i], at |-> k]
    <2>1. CASE i = n + 1
        <3>1. /\ new[i + 1] = Len(bytes) + L /\ new[i] = Len(bytes) /\ all[i] = m
              /\ Size(m) \in Nat
            BY <1>1, <1>5, <1>6, <1>7, <2>1 DEF Sized
        <3>2. new[i + 1] = new[i] + FRAME_HEADER_BYTES + Size(all[i])
            BY <1>1, <3>1 DEF L
        <3>3. QED
            BY <1>4, <3>1, <3>2 DEF L
    <2>2. CASE i # n + 1
        <3>1. /\ i \in 1 .. n /\ i \in 1 .. n + 1 /\ i + 1 \in 1 .. n + 1 /\ n + 1 \in 1 .. n + 1
              /\ i + 1 <= n + 1
            BY <1>1, <1>5, <2>2
        <3>2. /\ new[i] = cut[i] /\ new[i + 1] = cut[i + 1] /\ all[i] = msgs[i]
              /\ cut[i] \in Nat
            BY <1>5, <1>6, <3>1
        <3>3. /\ cut[i + 1] = cut[i] + FRAME_HEADER_BYTES + Size(msgs[i])
              /\ \A k \in 1 .. FRAME_HEADER_BYTES + Size(msgs[i]) :
                    bytes[cut[i] + k] = [of |-> msgs[i], at |-> k]
            BY <1>2, <3>1 DEF Cuts, n
        <3>4. cut[i + 1] <= Len(bytes) /\ Size(msgs[i]) \in Nat
            <4>1. msgs[i] \in M
                BY <3>1 DEF n
            <4>2. QED
                BY <1>7, <3>1, <4>1 DEF Sized
        <3>5. ASSUME NEW k \in 1 .. FRAME_HEADER_BYTES + Size(msgs[i])
              PROVE  more[cut[i] + k] = [of |-> msgs[i], at |-> k]
            <4>1. k \in Nat /\ 1 <= k /\ k <= FRAME_HEADER_BYTES + Size(msgs[i])
                BY <1>1, <3>4
            <4>2. cut[i] + (FRAME_HEADER_BYTES + Size(msgs[i])) <= Len(bytes)
                BY <1>1, <3>2, <3>3, <3>4
            <4>3. cut[i] + k \in 1 .. Len(bytes)
                <5> DEFINE a == cut[i]
                           b == FRAME_HEADER_BYTES + Size(msgs[i])
                <5>1. a \in Nat /\ b \in Nat /\ Len(bytes) \in Int
                    BY <1>1, <3>2, <3>4
                <5>2. a + b <= Len(bytes) /\ k <= b
                    BY <4>1, <4>2
                <5> HIDE DEF a, b
                <5>3. a + k \in 1 .. Len(bytes)
                    BY <4>1, <5>1, <5>2, Reaches
                <5>4. QED
                    BY <5>3 DEF a
            <4>4. QED
                BY <1>4, <3>3, <4>3
        <3>6. QED
            BY <3>2, <3>3, <3>5
    <2>3. QED
        BY <2>1, <2>2
<1>11. Cuts(new, more, all)
    BY <1>8, <1>9, <1>10 DEF Cuts
<1>12. QED
    BY <1>6, <1>11 DEF IsFrames, more, all

\* Where there are bytes there is a first message, and its frame comes first.
LEMMA FirstFrame ==
    ASSUME NEW M, Sized(M), NEW bytes, Len(bytes) \in Nat, NEW msgs \in Seq(M),
           IsFrames(bytes, msgs), Len(bytes) > 0
    PROVE  /\ msgs # <<>> /\ msgs[1] \in M /\ Size(msgs[1]) \in Nat \ {0}
           /\ FRAME_HEADER_BYTES + Size(msgs[1]) <= Len(bytes)
           /\ \A k \in 1 .. FRAME_HEADER_BYTES + Size(msgs[1]) :
                 bytes[k] = [of |-> msgs[1], at |-> k]
<1> DEFINE n == Len(msgs)
<1>1. PICK cut \in [1 .. n + 1 -> Nat] : Cuts(cut, bytes, msgs)
    BY DEF IsFrames
<1>2. cut[1] = 0 /\ cut[n + 1] = Len(bytes) /\ n \in Nat
    BY <1>1 DEF Cuts
<1>3. n # 0
    BY <1>2
<1>4. /\ 1 \in 1 .. n /\ 2 \in 1 .. n + 1 /\ n + 1 \in 1 .. n + 1 /\ 2 <= n + 1 /\ 1 + 1 = 2
      /\ msgs # <<>>
    BY <1>2, <1>3
<1>5. msgs[1] \in M /\ Size(msgs[1]) \in Nat \ {0}
    BY <1>4 DEF Sized
<1> HIDE DEF n
<1>6. /\ cut[2] = 0 + FRAME_HEADER_BYTES + Size(msgs[1])
      /\ \A k \in 1 .. FRAME_HEADER_BYTES + Size(msgs[1]) :
            bytes[0 + k] = [of |-> msgs[1], at |-> k]
      /\ cut[2] <= cut[n + 1]
    BY <1>1, <1>2, <1>4 DEF Cuts, n
<1>7. FRAME_HEADER_BYTES \in Nat
    BY StreamAssumption
<1>8. \A k \in 1 .. FRAME_HEADER_BYTES + Size(msgs[1]) : 0 + k = k
    BY <1>5, <1>7
<1>9. QED
    BY <1>2, <1>4, <1>5, <1>6, <1>7, <1>8

LEMMA NothingLeft ==
    ASSUME NEW M, Sized(M), NEW msgs \in Seq(M), IsFrames(<<>>, msgs)
    PROVE  msgs = <<>>
<1> DEFINE n == Len(msgs)
<1>1. PICK cut \in [1 .. n + 1 -> Nat] : Cuts(cut, <<>>, msgs)
    BY DEF IsFrames
<1>2. SUFFICES ASSUME n # 0 PROVE FALSE
    OBVIOUS
<1>3. /\ n \in Nat /\ 1 \in 1 .. n /\ 2 \in 1 .. n + 1 /\ n + 1 \in 1 .. n + 1 /\ 2 <= n + 1
      /\ 1 + 1 = 2
    BY <1>2
<1>4. msgs[1] \in M /\ Size(msgs[1]) \in Nat \ {0} /\ FRAME_HEADER_BYTES \in Nat
    BY <1>3, StreamAssumption DEF Sized
<1> HIDE DEF n
<1>5. /\ cut[1] = 0 /\ cut[n + 1] = 0 /\ cut[2] <= cut[n + 1]
      /\ cut[2] = cut[1] + FRAME_HEADER_BYTES + Size(msgs[1])
    BY <1>1, <1>3 DEF Cuts, n
<1>6. QED
    BY <1>4, <1>5

\* Without the first frame it is the frames of the other messages.
LEMMA RestFrames ==
    ASSUME NEW M, Sized(M), NEW bytes, Len(bytes) \in Nat, NEW msgs \in Seq(M),
           IsFrames(bytes, msgs), msgs # <<>>,
           NEW rest, Len(rest) = Len(bytes) - (FRAME_HEADER_BYTES + Size(msgs[1])),
           \A i \in 1 .. Len(rest) :
               rest[i] = bytes[FRAME_HEADER_BYTES + Size(msgs[1]) + i]
    PROVE  IsFrames(rest, Tail(msgs))
<1> DEFINE n == Len(msgs)
           L == FRAME_HEADER_BYTES + Size(msgs[1])
           t == Tail(msgs)
<1>1. PICK cut \in [1 .. n + 1 -> Nat] : Cuts(cut, bytes, msgs)
    BY DEF IsFrames
<1>2. /\ n \in Nat \ {0} /\ 1 \in 1 .. n /\ 2 \in 1 .. n + 1 /\ n + 1 \in 1 .. n + 1 /\ 1 + 1 = 2
      /\ Len(t) = n - 1 /\ \A i \in 1 .. n - 1 : t[i] = msgs[i + 1]
      /\ \A i \in 1 .. n : msgs[i] \in M
    BY HeadTailProperties
<1>3. \A i \in 1 .. n : Size(msgs[i]) \in Nat
    BY <1>2 DEF Sized
<1>4. L \in Nat /\ FRAME_HEADER_BYTES \in Nat
    BY <1>2, <1>3, StreamAssumption
<1> HIDE DEF n, t
<1>5. /\ cut[1] = 0 /\ cut[n + 1] = Len(bytes)
      /\ \A i, j \in 1 .. n + 1 : i <= j => cut[i] <= cut[j]
      /\ \A i \in 1 .. n :
            /\ cut[i + 1] = cut[i] + FRAME_HEADER_BYTES + Size(msgs[i])
            /\ \A k \in 1 .. FRAME_HEADER_BYTES + Size(msgs[i]) :
                  bytes[cut[i] + k] = [of |-> msgs[i], at |-> k]
    BY <1>1 DEF Cuts, n
<1>6. cut[2] = L
    <2>1. cut[2] = 0 + FRAME_HEADER_BYTES + Size(msgs[1])
        BY <1>2, <1>5
    <2>2. QED
        BY <1>2, <1>3, <1>4, <2>1
<1> HIDE DEF L
<1> DEFINE new == [i \in 1 .. n |-> cut[i + 1] - L]
<1>7. ASSUME NEW i \in 1 .. n
      PROVE  /\ i + 1 \in 1 .. n + 1 /\ cut[i + 1] \in Nat /\ new[i] = cut[i + 1] - L
             /\ new[i] \in Nat /\ cut[i + 1] = new[i] + L
    <2>1. i + 1 \in 1 .. n + 1 /\ 2 <= i + 1
        BY <1>2
    <2>2. cut[i + 1] \in Nat /\ L <= cut[i + 1]
        BY <1>2, <1>5, <1>6, <2>1
    <2>3. new[i] = cut[i + 1] - L
        OBVIOUS
    <2>4. QED
        BY <1>4, <2>1, <2>2, <2>3
<1>8. new \in [1 .. Len(t) + 1 -> Nat]
    <2>1. Len(t) + 1 = n
        BY <1>2
    <2>2. QED
        BY <1>7, <2>1
<1> HIDE DEF new
<1>9. new[1] = 0 /\ new[Len(t) + 1] = Len(rest)
    <2>1. 1 \in 1 .. n /\ n \in 1 .. n /\ Len(t) + 1 = n /\ cut[1 + 1] = L
        BY <1>2, <1>6
    <2>2. new[1] = L - L /\ new[n] = Len(bytes) - L
        BY <1>5, <1>7, <2>1
    <2>3. QED
        BY <1>4, <2>1, <2>2 DEF L
<1>10. ASSUME NEW i \in 1 .. Len(t) + 1, NEW j \in 1 .. Len(t) + 1, i <= j
       PROVE  new[i] <= new[j]
    <2>1. i \in 1 .. n /\ j \in 1 .. n
        BY <1>2
    <2>2. i + 1 \in 1 .. n + 1 /\ j + 1 \in 1 .. n + 1 /\ i + 1 <= j + 1
        BY <1>2, <1>10, <2>1
    <2>3. cut[i + 1] <= cut[j + 1]
        BY <1>5, <2>2
    <2>4. /\ cut[i + 1] = new[i] + L /\ cut[j + 1] = new[j] + L
          /\ new[i] \in Nat /\ new[j] \in Nat
        BY <1>7, <2>1
    <2>5. new[i] + L <= new[j] + L
        BY <2>3, <2>4
    <2>6. QED
        BY <1>4, <2>4, <2>5
<1>11. ASSUME NEW i \in 1 .. Len(t)
       PROVE  /\ new[i + 1] = new[i] + FRAME_HEADER_BYTES + Size(t[i])
              /\ \A k \in 1 .. FRAME_HEADER_BYTES + Size(t[i]) :
                    rest[new[i] + k] = [of |-> t[i], at |-> k]
    <2>1. /\ i \in 1 .. n /\ i + 1 \in 1 .. n /\ i + 1 \in 1 .. n + 1 /\ t[i] = msgs[i + 1]
          /\ (i + 1) + 1 \in 1 .. n + 1 /\ n + 1 \in 1 .. n + 1 /\ (i + 1) + 1 <= n + 1
        BY <1>2
    <2>2. Size(t[i]) \in Nat
        BY <1>3, <2>1
    <2>3. /\ cut[(i + 1) + 1] = cut[i + 1] + FRAME_HEADER_BYTES + Size(t[i])
          /\ \A k \in 1 .. FRAME_HEADER_BYTES + Size(t[i]) :
                bytes[cut[i + 1] + k] = [of |-> t[i], at |-> k]
          /\ cut[(i + 1) + 1] <= Len(bytes)
        BY <1>5, <2>1
    <2>4. /\ cut[i + 1] = new[i] + L /\ cut[(i + 1) + 1] = new[i + 1] + L
          /\ new[i] \in Nat /\ new[i + 1] \in Nat
        BY <1>7, <2>1
    <2>5. new[i + 1] = new[i] + FRAME_HEADER_BYTES + Size(t[i])
        <3>1. new[i + 1] + L = (new[i] + L) + FRAME_HEADER_BYTES + Size(t[i])
            BY <2>3, <2>4
        <3>2. L \in Nat /\ FRAME_HEADER_BYTES \in Nat
            BY <1>4
        <3>3. Size(t[i]) \in Nat
            BY <2>2
        <3>4. new[i] \in Nat /\ new[i + 1] \in Nat
            BY <2>4
        <3> DEFINE a == new[i + 1]
                   b == new[i]
                   e == Size(t[i])
        <3>5. a \in Nat /\ b \in Nat /\ e \in Nat
            BY <3>3, <3>4
        <3>6. a + L = (b + L) + FRAME_HEADER_BYTES + e
            BY <3>1
        <3> HIDE DEF a, b, e
        <3>7. a = b + FRAME_HEADER_BYTES + e
            BY ONLY <3>2, <3>5, <3>6
        <3>8. QED
            BY <3>7 DEF a, b, e
    <2>6. ASSUME NEW k \in 1 .. FRAME_HEADER_BYTES + Size(t[i])
          PROVE  rest[new[i] + k] = [of |-> t[i], at |-> k]
        <3>1. Len(rest) = Len(bytes) - L
            BY DEF L
        <3>2. Len(rest) \in Int
            BY <1>4, <3>1
        <3>3. k \in Nat /\ 1 <= k /\ k <= FRAME_HEADER_BYTES + Size(t[i])
            BY <1>4, <2>2
        <3>4. new[i] + k \in 1 .. Len(rest)
            <4> DEFINE b == FRAME_HEADER_BYTES + Size(t[i])
            <4>1. b \in Nat
                BY <1>4, <2>2
            <4>2. new[i + 1] + L <= Len(bytes)
                BY <2>3, <2>4
            <4>3. new[i + 1] <= Len(rest)
                BY <1>4, <2>4, <3>1, <4>2
            <4>4. new[i + 1] = new[i] + b
                BY <1>4, <2>2, <2>4, <2>5
            <4> HIDE DEF b
            <4>5. QED
                BY <2>4, <3>2, <3>3, <4>1, <4>3, <4>4, Reaches DEF b
        <3>5. rest[new[i] + k] = bytes[L + (new[i] + k)]
            BY <3>4 DEF L
        <3>6. L + (new[i] + k) = cut[i + 1] + k
            BY <1>4, <2>4, <3>3
        <3>7. QED
            BY <2>3, <3>5, <3>6
    <2>7. QED
        BY <2>5, <2>6
<1>12. Cuts(new, rest, t)
    BY <1>9, <1>10, <1>11 DEF Cuts
<1>13. QED
    BY <1>8, <1>12 DEF IsFrames, t

\* At the front of the frames a whole frame is the first message, and nothing
\* else is taken for a header.
LEMMA FirstIsFrame ==
    ASSUME NEW M, Sized(M), NEW front \in Seq(Bytes(M)), NEW w \in Seq(Bytes(M)),
           NEW msgs \in Seq(M), IsFrames(front \o w, msgs), NEW stray \in Nat,
           Len(front) >= FRAME_HEADER_BYTES
    PROVE  /\ msgs # <<>> /\ msgs[1] \in M
           /\ FrameLength(front, stray) = FRAME_HEADER_BYTES + Size(msgs[1])
           /\ FrameLength(front, stray) <= Len(front \o w)
           /\ \A k \in 1 .. Len(front) :
                 k <= FrameLength(front, stray) => front[k] = [of |-> msgs[1], at |-> k]
<1> DEFINE all == front \o w
           m   == msgs[1]
           H   == FRAME_HEADER_BYTES
<1>1. /\ H \in Nat \ {0} /\ Len(front) \in Nat /\ Len(w) \in Nat
      /\ Len(all) = Len(front) + Len(w)
      /\ \A k \in 1 .. Len(front) : all[k] = front[k]
    <2>1. \A k \in 1 .. Len(front) : k \in 1 .. Len(front) + Len(w) /\ k <= Len(front)
        OBVIOUS
    <2>2. QED
        BY <2>1, ConcatProperties, StreamAssumption
<1> HIDE DEF all
<1>2. Len(all) \in Nat /\ Len(all) > 0
    BY <1>1
<1>3. /\ msgs # <<>> /\ m \in M /\ Size(m) \in Nat \ {0}
      /\ H + Size(m) <= Len(all)
      /\ \A k \in 1 .. H + Size(m) : all[k] = [of |-> m, at |-> k]
    BY <1>2, FirstFrame DEF all
<1> HIDE DEF m
<1>4. ASSUME NEW k \in 1 .. Len(front), k <= H + Size(m)
      PROVE  front[k] = [of |-> m, at |-> k]
    <2>1. k \in 1 .. H + Size(m)
        BY <1>1, <1>3, <1>4
    <2>2. QED
        BY <1>1, <1>3, <2>1
<1>5. Head(front).of = m
    <2>1. 1 \in 1 .. Len(front) /\ 1 <= H + Size(m)
        BY <1>1, <1>3
    <2>2. front[1] = [of |-> m, at |-> 1]
        BY <1>4, <2>1
    <2>3. Head(front) = front[1]
        BY <1>1
    <2>4. QED
        BY <2>2, <2>3
<1>6. IsPrefix(SubSeq(Frame(m), 1, H), front)
    <2> DEFINE header == SubSeq(Frame(m), 1, H)
               start  == SubSeq(front, 1, H)
    <2>1. /\ Frame(m) \in Seq(Bytes(M))
          /\ \A k \in 1 .. H + Size(m) : Frame(m)[k] = [of |-> m, at |-> k]
        BY <1>3, FrameBytes
    <2>2. ASSUME NEW k \in 1 .. H
          PROVE  /\ Frame(m)[k] = [of |-> m, at |-> k] /\ front[k] = [of |-> m, at |-> k]
                 /\ Frame(m)[k] \in Bytes(M) /\ front[k] \in Bytes(M)
        <3>1. k \in 1 .. H + Size(m) /\ k \in 1 .. Len(front) /\ k <= H + Size(m) /\ k \in Nat
            BY <1>1, <1>3
        <3>2. [of |-> m, at |-> k] \in Bytes(M)
            BY <1>3, <3>1 DEF Bytes
        <3>3. Frame(m)[k] = [of |-> m, at |-> k] /\ front[k] = [of |-> m, at |-> k]
            BY <1>4, <2>1, <3>1
        <3>4. QED
            BY <3>2, <3>3
    <2>3. /\ header \in Seq(Bytes(M)) /\ Len(header) = H
          /\ \A k \in 1 .. H : header[k] = Frame(m)[k]
        <3>0. \A k \in 1 .. H : Frame(m)[k] \in Bytes(M)
            BY <2>2
        <3>1. 1 \in Int /\ H \in Int
            BY <1>1
        <3>2. /\ SubSeq(Frame(m), 1, H) \in Seq(Bytes(M))
              /\ Len(SubSeq(Frame(m), 1, H)) = IF 1 <= H THEN H - 1 + 1 ELSE 0
              /\ \A k \in 1 .. H - 1 + 1 : SubSeq(Frame(m), 1, H)[k] = Frame(m)[1 + k - 1]
            BY <3>0, <3>1, SubSeqProperties
        <3>3. 1 <= H /\ H - 1 + 1 = H /\ \A k \in 1 .. H : 1 + k - 1 = k
            BY <1>1
        <3>4. QED
            BY <3>2, <3>3
    <2>4. /\ start \in Seq(Bytes(M)) /\ Len(start) = H
          /\ \A k \in 1 .. H : start[k] = front[k]
        <3>1. 1 \in Int /\ H \in Int /\ \A k \in 1 .. H : front[k] \in Bytes(M)
            BY <1>1, <2>2
        <3>2. /\ SubSeq(front, 1, H) \in Seq(Bytes(M))
              /\ Len(SubSeq(front, 1, H)) = IF 1 <= H THEN H - 1 + 1 ELSE 0
              /\ \A k \in 1 .. H - 1 + 1 : SubSeq(front, 1, H)[k] = front[1 + k - 1]
            BY <3>1, SubSeqProperties
        <3>3. 1 <= H /\ H - 1 + 1 = H /\ \A k \in 1 .. H : 1 + k - 1 = k
            BY <1>1
        <3>4. QED
            BY <3>2, <3>3
    <2>5. header = start
        <3>1. \A k \in 1 .. Len(header) : header[k] = start[k]
            BY <2>2, <2>3, <2>4
        <3> HIDE DEF header, start
        <3>2. QED
            BY <2>3, <2>4, <3>1, SeqEqual
    <2>6. SubSeq(header, 1, Len(header)) = header
        <3> HIDE DEF header
        <3>1. QED
            BY <2>3, SubSeqFull
    <2> HIDE DEF header
    <2>7. QED
        BY <1>1, <2>3, <2>5, <2>6 DEF IsPrefix, header
<1>7. FrameLength(front, stray) = H + Size(m)
    BY <1>5, <1>6 DEF FrameLength
<1>8. QED
    BY <1>3, <1>4, <1>7 DEF all, m

LEMMA TurnTakesFirst ==
    ASSUME NEW M, Sized(M), NEW front \in Seq(Bytes(M)), NEW w \in Seq(Bytes(M)),
           NEW msgs \in Seq(M), IsFrames(front \o w, msgs), NEW stray \in Nat,
           Complete(front, stray)
    PROVE  /\ msgs # <<>> /\ msgs[1] \in M
           /\ Decode(FirstPayload(front, stray)) = msgs[1]
           /\ AfterFirst(front, stray) \in Seq(Bytes(M))
           /\ IsFrames(AfterFirst(front, stray) \o w, Tail(msgs))
<1> DEFINE m       == msgs[1]
           H       == FRAME_HEADER_BYTES
           L       == FrameLength(front, stray)
           payload == FirstPayload(front, stray)
           after   == AfterFirst(front, stray)
           all     == front \o w
           rest    == after \o w
<1>1. /\ Len(front) >= H /\ Len(front) >= L /\ H \in Nat \ {0} /\ Len(front) \in Nat
      /\ Len(w) \in Nat
    BY StreamAssumption DEF Complete
<1>2. /\ msgs # <<>> /\ m \in M /\ L = H + Size(m) /\ Size(m) \in Nat \ {0}
      /\ \A k \in 1 .. Len(front) : k <= L => front[k] = [of |-> m, at |-> k]
    BY <1>1, FirstIsFrame DEF Sized
<1> HIDE DEF L
<1>3. L \in Nat /\ H + 1 <= L /\ L - (H + 1) + 1 = Size(m)
    <2> DEFINE size == Size(m)
    <2>1. L = H + size /\ size \in Nat \ {0} /\ H \in Nat
        BY <1>1, <1>2
    <2> HIDE DEF size, H
    <2>2. L \in Nat /\ H + 1 <= L /\ L - (H + 1) + 1 = size
        BY <2>1
    <2>3. QED
        BY <2>2 DEF size, H
<1>4. Decode(payload) = m
    <2>1. \A k \in H + 1 .. L : k \in 1 .. Len(front) /\ front[k] \in Bytes(M)
        BY <1>1, <1>3
    <2>2. /\ payload \in Seq(Bytes(M)) /\ Len(payload) = Size(m)
          /\ \A k \in 1 .. Size(m) : payload[k] = front[(H + 1) + k - 1]
        BY <1>1, <1>3, <2>1, SubSeqProperties DEF FirstPayload, L
    <2>3. /\ Frame(m) \in Seq(Bytes(M)) /\ Len(Frame(m)) = L
          /\ \A k \in 1 .. L : Frame(m)[k] = [of |-> m, at |-> k]
        BY <1>2, FrameBytes
    <2>4. \A k \in H + 1 .. L : k \in 1 .. L /\ Frame(m)[k] \in Bytes(M)
        <3>1. \A k \in 1 .. L : Frame(m)[k] \in Bytes(M)
            BY <2>3
        <3>2. \A k \in H + 1 .. L : k \in 1 .. L
            BY <1>1, <1>3
        <3>3. QED
            BY <3>1, <3>2
    <2>5. /\ Payload(m) \in Seq(Bytes(M)) /\ Len(Payload(m)) = Size(m)
          /\ \A k \in 1 .. Size(m) : Payload(m)[k] = Frame(m)[(H + 1) + k - 1]
        <3>1. Payload(m) = SubSeq(Frame(m), H + 1, L)
            BY <2>3 DEF Payload, From
        <3>2. H + 1 \in Int /\ L \in Int
            BY <1>1, <1>3
        <3>3. /\ SubSeq(Frame(m), H + 1, L) \in Seq(Bytes(M))
              /\ Len(SubSeq(Frame(m), H + 1, L)) = IF H + 1 <= L THEN L - (H + 1) + 1 ELSE 0
              /\ \A k \in 1 .. L - (H + 1) + 1 :
                    SubSeq(Frame(m), H + 1, L)[k] = Frame(m)[(H + 1) + k - 1]
            BY <2>4, <3>2, SubSeqProperties
        <3>4. QED
            BY <1>3, <3>1, <3>3
    <2>6. ASSUME NEW k \in 1 .. Size(m) PROVE payload[k] = Payload(m)[k]
        <3> DEFINE j == (H + 1) + k - 1
        <3>1. j \in 1 .. L /\ j \in 1 .. Len(front) /\ j <= L
            <4> HIDE DEF m
            <4>1. k \in Nat /\ 1 <= k /\ k <= Size(m) /\ L = H + Size(m) /\ L <= Len(front)
                BY <1>1, <1>2
            <4>2. j = H + k /\ H \in Nat
                BY <1>1, <4>1
            <4> HIDE DEF j
            <4>3. j \in Nat /\ 1 <= j /\ j <= L
                BY <1>2, <4>1, <4>2
            <4>4. QED
                BY <1>1, <1>3, <4>1, <4>3
        <3>2. payload[k] = front[j] /\ Payload(m)[k] = Frame(m)[j]
            BY <2>2, <2>5
        <3> HIDE DEF j
        <3>3. QED
            BY <1>2, <2>3, <3>1, <3>2
    <2>7. payload = Payload(m)
        <3> HIDE DEF payload, m
        <3>1. QED
            BY <2>2, <2>5, <2>6, SeqEqual
    <2>8. payload # <<>> /\ Head(payload).of = m
        <3>1. 1 \in 1 .. Size(m) /\ (H + 1) + 1 - 1 = H + 1
              /\ H + 1 \in 1 .. Len(front) /\ H + 1 <= L
            <4>1. 1 \in 1 .. Size(m)
                BY <1>2
            <4>2. H + 1 \in 1 .. Len(front) /\ H + 1 <= L
                BY <1>1, <1>3
            <4>3. QED
                BY <1>1, <4>1, <4>2
        <3>2. payload[1] = front[H + 1]
            BY <2>2, <3>1
        <3>3. payload[1] = [of |-> m, at |-> H + 1]
            BY <1>2, <3>1, <3>2
        <3>4. payload # <<>> /\ Head(payload) = payload[1]
            BY <1>2, <2>2
        <3> HIDE DEF payload, m
        <3>5. QED
            BY <3>3, <3>4
    <2> HIDE DEF payload, m
    <2>9. QED
        BY <2>7, <2>8 DEF Decode
<1>5. L + 1 \in 1 .. Len(front) + 1
    BY <1>1, <1>3
<1>6. /\ after \in Seq(Bytes(M)) /\ Len(after) = Len(front) - L
      /\ \A i \in 1 .. Len(front) - L : after[i] = front[L + i]
    <2>1. \A i \in L + 1 .. Len(front) : i \in 1 .. Len(front) /\ front[i] \in Bytes(M)
        BY <1>1, <1>3
    <2>2. L + 1 \in Int /\ Len(front) \in Int
        BY <1>1, <1>3
    <2>3. /\ SubSeq(front, L + 1, Len(front)) \in Seq(Bytes(M))
          /\ Len(SubSeq(front, L + 1, Len(front))) =
                IF L + 1 <= Len(front) THEN Len(front) - (L + 1) + 1 ELSE 0
          /\ \A i \in 1 .. Len(front) - (L + 1) + 1 :
                SubSeq(front, L + 1, Len(front))[i] = front[(L + 1) + i - 1]
        BY <2>1, <2>2, SubSeqProperties
    <2>4. after = SubSeq(front, L + 1, Len(front))
        BY DEF AfterFirst, From, L
    <2>5. /\ Len(front) - (L + 1) + 1 = Len(front) - L
          /\ \A i \in 1 .. Len(front) - L : (L + 1) + i - 1 = L + i
        BY <1>1, <1>3
    <2> HIDE DEF after
    <2>6. after \in Seq(Bytes(M))
        BY <2>3, <2>4
    <2>7. Len(after) = Len(front) - L
        <3>1. CASE L + 1 <= Len(front)
            BY <2>3, <2>4, <2>5, <3>1
        <3>2. CASE ~(L + 1 <= Len(front))
            BY <1>1, <1>3, <2>3, <2>4, <3>2
        <3>3. QED
            BY <3>1, <3>2
    <2>8. \A i \in 1 .. Len(front) - L : after[i] = front[L + i]
        BY <2>3, <2>4, <2>5
    <2>9. QED
        BY <2>6, <2>7, <2>8
<1> HIDE DEF after, payload, m
<1>7. /\ Len(all) = Len(front) + Len(w)
      /\ Len(rest) = (Len(front) - L) + Len(w)
      /\ \A i \in 1 .. Len(rest) : rest[i] = all[L + i]
    <2>1. /\ Len(all) = Len(front) + Len(w)
          /\ \A i \in 1 .. Len(front) + Len(w) :
                all[i] = IF i <= Len(front) THEN front[i] ELSE w[i - Len(front)]
        BY ConcatProperties
    <2>2. /\ Len(rest) = Len(after) + Len(w)
          /\ \A i \in 1 .. Len(after) + Len(w) :
                rest[i] = IF i <= Len(after) THEN after[i] ELSE w[i - Len(after)]
        BY <1>6, ConcatProperties
    <2> HIDE DEF all, rest
    <2>3. ASSUME NEW i \in 1 .. Len(rest) PROVE rest[i] = all[L + i]
        <3>1. /\ i \in 1 .. Len(after) + Len(w) /\ L + i \in 1 .. Len(front) + Len(w)
              /\ i \in Nat /\ 1 <= i
            BY <1>1, <1>3, <1>6, <2>2
        <3>2. CASE i <= Len(after)
            <4>1. L + i <= Len(front) /\ i \in 1 .. Len(front) - L
                BY <1>1, <1>3, <1>6, <3>1, <3>2
            <4>2. QED
                BY <1>6, <2>1, <2>2, <3>1, <3>2, <4>1
        <3>3. CASE ~(i <= Len(after))
            <4>1. ~(L + i <= Len(front)) /\ (L + i) - Len(front) = i - Len(after)
                BY <1>1, <1>3, <1>6, <3>1, <3>3
            <4>2. QED
                BY <2>1, <2>2, <3>1, <3>3, <4>1
        <3>4. QED
            BY <3>2, <3>3
    <2>4. QED
        BY <1>6, <2>1, <2>2, <2>3
<1>8. IsFrames(rest, Tail(msgs))
    <2>1. IsFrames(all, msgs)
        OBVIOUS
    <2> HIDE DEF all, rest
    <2>2. Len(all) \in Nat /\ Len(rest) = Len(all) - L
        BY <1>1, <1>3, <1>7
    <2>3. L = FRAME_HEADER_BYTES + Size(msgs[1])
        BY <1>2 DEF m
    <2>4. \A i \in 1 .. Len(rest) : rest[i] = all[L + i]
        BY <1>7
    <2>5. msgs # <<>>
        BY <1>2
    <2>6. /\ Len(rest) = Len(all) - (FRAME_HEADER_BYTES + Size(msgs[1]))
          /\ \A i \in 1 .. Len(rest) : rest[i] = all[FRAME_HEADER_BYTES + Size(msgs[1]) + i]
        BY <2>2, <2>3, <2>4
    <2>7. QED
        BY <2>1, <2>2, <2>5, <2>6, RestFrames
<1>9. QED
    BY <1>2, <1>4, <1>6, <1>8 DEF m, payload, after

-----------------------------------------------------------------------------
(* The framer on whole frames.                                             *)

\* Moving the first of b to the end of a.
Moves(M, a, b) ==
    /\ Append(a, b[1]) \in Seq(M) /\ Tail(b) \in Seq(M)
    /\ Append(a, b[1]) \o Tail(b) = a \o b

LEMMA TakeFirst ==
    ASSUME NEW M, NEW a \in Seq(M), NEW b \in Seq(M), b # <<>>
    PROVE  Moves(M, a, b)
<1>1. b[1] \in M /\ Tail(b) \in Seq(M) /\ Len(Tail(b)) = Len(b) - 1
      /\ Len(b) \in Nat \ {0} /\ Len(a) \in Nat
      /\ \A i \in 1 .. Len(b) - 1 : Tail(b)[i] = b[i + 1]
    BY HeadTailProperties
<1> DEFINE c == Append(a, b[1])
           s == c \o Tail(b)
           t == a \o b
<1>2. /\ c \in Seq(M) /\ Len(c) = Len(a) + 1 /\ c[Len(a) + 1] = b[1]
      /\ \A i \in 1 .. Len(a) : c[i] = a[i]
    BY <1>1, AppendProperties
<1> HIDE DEF c
<1>3. /\ s \in Seq(M) /\ Len(s) = Len(c) + Len(Tail(b))
      /\ \A i \in 1 .. Len(c) + Len(Tail(b)) :
            s[i] = IF i <= Len(c) THEN c[i] ELSE Tail(b)[i - Len(c)]
    BY <1>1, <1>2, ConcatProperties
<1>4. /\ t \in Seq(M) /\ Len(t) = Len(a) + Len(b)
      /\ \A i \in 1 .. Len(a) + Len(b) : t[i] = IF i <= Len(a) THEN a[i] ELSE b[i - Len(a)]
    BY ConcatProperties
<1> HIDE DEF s, t
<1>5. Len(s) = Len(t)
    BY <1>1, <1>2, <1>3, <1>4
<1>6. ASSUME NEW i \in 1 .. Len(s) PROVE s[i] = t[i]
    <2>1. i \in 1 .. Len(a) + Len(b) /\ i \in 1 .. Len(c) + Len(Tail(b)) /\ i \in Nat /\ 1 <= i
        BY <1>1, <1>3, <1>4, <1>5
    <2>2. CASE i <= Len(a)
        BY <1>1, <1>2, <1>3, <1>4, <2>1, <2>2
    <2>3. CASE i = Len(a) + 1
        <3>1. i <= Len(c) /\ ~(i <= Len(a)) /\ i - Len(a) = 1
            BY <1>1, <1>2, <2>1, <2>3
        <3>2. QED
            BY <1>2, <1>3, <1>4, <2>1, <2>3, <3>1
    <2>4. CASE i > Len(a) + 1
        <3>1. /\ ~(i <= Len(c)) /\ ~(i <= Len(a)) /\ (i - Len(c)) + 1 = i - Len(a)
              /\ i - Len(c) \in 1 .. Len(b) - 1
            BY <1>1, <1>2, <2>1, <2>4
        <3>2. s[i] = Tail(b)[i - Len(c)] /\ t[i] = b[i - Len(a)]
            BY <1>3, <1>4, <2>1, <3>1
        <3>3. QED
            BY <1>1, <3>1, <3>2
    <2>5. QED
        BY <1>1, <2>1, <2>2, <2>3, <2>4
<1>7. s = t
    BY <1>3, <1>4, <1>5, <1>6, SeqEqual
<1>8. QED
    BY <1>1, <1>2, <1>7 DEF s, t, c, Moves

\* Whatever comes after the framer's bytes: it returns messages in their order,
\* and leaves the frames of the others.
LEMMA FramedTakesFrames ==
    ASSUME NEW M, Sized(M), NEW bytes \in Seq(Bytes(M)), NEW w \in Seq(Bytes(M)),
           NEW msgs \in Seq(M), IsFrames(bytes \o w, msgs), NEW stray \in Nat
    PROVE  /\ Framed(bytes, stray).messages \in Seq(M)
           /\ Framed(bytes, stray).rest \in Seq(Bytes(M))
           /\ \E more \in Seq(M) : /\ Framed(bytes, stray).messages \o more = msgs
                                   /\ IsFrames(Framed(bytes, stray).rest \o w, more)
<1> DEFINE Good(t) == \E more \in Seq(M) : t.messages \o more = msgs /\ IsFrames(t.rest \o w, more)
           S == {t \in [messages : Seq(M), rest : Seq(Bytes(M))] : Good(t)}
           start == [messages |-> <<>>, rest |-> bytes]
<1>1. start \in S
    <2>1. start \in [messages : Seq(M), rest : Seq(Bytes(M))]
        OBVIOUS
    <2>2. start.messages \o msgs = msgs /\ IsFrames(start.rest \o w, msgs)
        BY ConcatEmptySeq
    <2>3. QED
        BY <2>1, <2>2
<1>2. ASSUME NEW t \in S PROVE Turned(t, stray) \in S
    <2>1. t.messages \in Seq(M) /\ t.rest \in Seq(Bytes(M))
        OBVIOUS
    <2>2. PICK more \in Seq(M) : t.messages \o more = msgs /\ IsFrames(t.rest \o w, more)
        OBVIOUS
    <2>3. CASE Complete(t.rest, stray)
        <3>1. /\ more # <<>> /\ more[1] \in M
              /\ Decode(FirstPayload(t.rest, stray)) = more[1]
              /\ AfterFirst(t.rest, stray) \in Seq(Bytes(M))
              /\ IsFrames(AfterFirst(t.rest, stray) \o w, Tail(more))
            BY <2>1, <2>2, <2>3, TurnTakesFirst
        <3>2. /\ Append(t.messages, more[1]) \in Seq(M) /\ Tail(more) \in Seq(M)
              /\ Append(t.messages, more[1]) \o Tail(more) = msgs
            <4> DEFINE a == t.messages
            <4>1. a \in Seq(M) /\ a \o more = msgs /\ more \in Seq(M)
                BY <2>1, <2>2
            <4> HIDE DEF a
            <4>2. Moves(M, a, more)
                BY <3>1, <4>1, TakeFirst
            <4>3. QED
                BY <4>1, <4>2 DEF a, Moves
        <3> DEFINE u == [messages |-> Append(t.messages, more[1]),
                         rest |-> AfterFirst(t.rest, stray)]
        <3>3. Turned(t, stray) = u
            BY <2>3, <3>1 DEF Turned
        <3>4. u \in [messages : Seq(M), rest : Seq(Bytes(M))]
            BY <3>1, <3>2
        <3>5. u.messages \o Tail(more) = msgs /\ IsFrames(u.rest \o w, Tail(more))
            BY <3>1, <3>2
        <3> HIDE DEF u
        <3>6. u \in S
            BY <3>2, <3>4, <3>5
        <3>7. QED
            BY <3>3, <3>6
    <2>4. CASE ~Complete(t.rest, stray)
        BY <2>4 DEF Turned
    <2>5. QED
        BY <2>3, <2>4
<1>3. Len(bytes) \in Nat
    OBVIOUS
<1>4. Framed(bytes, stray) \in S
    <2> HIDE DEF S
    <2>1. QED
        BY <1>1, <1>2, <1>3, FramedKeeps DEF start
<1>5. QED
    BY <1>4

\* The loop ends only where no whole frame is left.
LEMMA FramedStops ==
    ASSUME NEW M, Sized(M), NEW bytes \in Seq(Bytes(M)), NEW stray \in Nat
    PROVE  ~Complete(Framed(bytes, stray).rest, stray)
<1> DEFINE S == [messages : Seq(Decoded(M)), rest : Seq(Bytes(M))]
           H == FRAME_HEADER_BYTES
           n == Len(bytes)
           N == n \div H
<1>1. n \in Nat /\ H \in Nat \ {0} /\ \A m \in M : Size(m) \in Nat
    BY StreamAssumption DEF Sized
<1>2. [messages |-> <<>>, rest |-> bytes] \in S
    OBVIOUS
<1>3. ASSUME NEW t \in S
      PROVE  /\ Turned(t, stray) \in S
             /\ Complete(t.rest, stray) => Len(Turned(t, stray).rest) + H <= Len(t.rest)
             /\ ~Complete(t.rest, stray) => Turned(t, stray) = t
    <2>1. t.messages \in Seq(Decoded(M)) /\ t.rest \in Seq(Bytes(M)) /\ Len(t.rest) \in Nat
        OBVIOUS
    <2>2. CASE Complete(t.rest, stray)
        <3>1. /\ AfterFirst(t.rest, stray) \in Seq(Bytes(M))
              /\ Len(AfterFirst(t.rest, stray)) = Len(t.rest) - FrameLength(t.rest, stray)
              /\ Decode(FirstPayload(t.rest, stray)) \in Decoded(M)
              /\ FrameLength(t.rest, stray) \in H .. Len(t.rest)
            BY <1>1, <2>1, <2>2, FirstTyped, CompleteBounds
        <3>2. Turned(t, stray) =
                  [messages |-> Append(t.messages, Decode(FirstPayload(t.rest, stray))),
                   rest |-> AfterFirst(t.rest, stray)]
            BY <2>2 DEF Turned
        <3>3. Turned(t, stray) \in S
            BY <2>1, <3>1, <3>2
        <3>4. Len(Turned(t, stray).rest) + H <= Len(t.rest)
            BY <1>1, <2>1, <3>1, <3>2
        <3>5. QED
            BY <2>2, <3>3, <3>4
    <2>3. CASE ~Complete(t.rest, stray)
        BY <2>3 DEF Turned
    <2>4. QED
        BY <2>2, <2>3
<1> HIDE DEF S
<1>4. PICK g \in [Nat -> S] : Turns(g, bytes, stray) /\ Framed(bytes, stray) = g[N]
    BY <1>2, <1>3, FramedTurns
<1>5. \A k \in Nat : g[k] \in S /\ Len(g[k].rest) \in Nat
    <2>1. \A k \in Nat : g[k] \in S
        BY <1>4
    <2>2. \A t \in S : Len(t.rest) \in Nat
        BY DEF S
    <2>3. QED
        BY <2>1, <2>2
<1>6. g[0].rest = bytes /\ \A k \in Nat : g[k + 1] = Turned(g[k], stray)
    BY <1>4 DEF Turns
<1>7. N \in Nat /\ n < N * H + H /\ N * H \in Nat
    BY <1>1
<1> DEFINE Left(k) == Len(g[k].rest)
           P == {k \in Nat : Complete(g[k].rest, stray) => Left(k) + k * H <= n}
<1>8. 0 \in P
    <2>1. Left(0) = n /\ 0 * H = 0
        BY <1>1, <1>6
    <2> HIDE DEF n, H, Left
    <2>2. Left(0) + 0 * H <= n
        BY <1>1, <2>1
    <2>3. QED
        BY <2>2
<1>9. ASSUME NEW k \in Nat, k \in P PROVE k + 1 \in P
    <2>1. SUFFICES ASSUME Complete(g[k + 1].rest, stray)
                   PROVE  Left(k + 1) + (k + 1) * H <= n
        OBVIOUS
    <2>2. g[k] \in S /\ g[k + 1] = Turned(g[k], stray) /\ k + 1 \in Nat
        <3> HIDE DEF P, N, n, H, Left
        <3>1. g[k] \in S
            BY <1>5
        <3>2. g[k + 1] = Turned(g[k], stray)
            BY <1>6
        <3>3. QED
            BY <3>1, <3>2
    <2>3. Complete(g[k].rest, stray) /\ Left(k + 1) + H <= Left(k)
        <3> HIDE DEF P, N, n, H
        <3>1. Complete(g[k].rest, stray)
            BY <1>3, <2>1, <2>2
        <3>2. QED
            BY <1>3, <2>2, <3>1
    <2>4. Left(k) + k * H <= n
        BY <1>9, <2>3
    <2>5. Left(k) \in Nat /\ Left(k + 1) \in Nat
        BY <1>5, <2>2
    <2> HIDE DEF P, N, n, H, Left
    <2>6. (k + 1) * H = k * H + H /\ k * H \in Nat
        BY <1>1
    <2>7. QED
        BY <1>1, <2>3, <2>4, <2>5, <2>6
<1>10. \A k \in Nat : k \in P
    <2> HIDE DEF P
    <2>1. QED
        BY <1>8, <1>9, Induction
<1>11. SUFFICES ASSUME Complete(g[N].rest, stray) PROVE FALSE
    BY <1>4
<1>12. Left(N) + N * H <= n /\ Left(N) \in Nat
    BY <1>5, <1>7, <1>10, <1>11
<1>13. Left(N) >= H
    BY <1>11 DEF Complete
<1> HIDE DEF N, n, H, Left
<1>14. QED
    BY <1>1, <1>7, <1>12, <1>13

-----------------------------------------------------------------------------
(* As long as no call fails, the stream holds the frames of what was sent  *)
(* and is not yet received.                                                *)

\* What is sent is what is received and then more, whose frames are the bytes
\* in the framer and on the wire; the framer keeps less than a frame.
InOrderInv ==
    /\ receiver \in {"framer", "transport"}
    /\ receiver = "transport" => buffer = <<>>
    /\ ~failed =>
          /\ \A stray \in Nat : ~Complete(buffer, stray)
          /\ received \in Seq(Messages)
          /\ \E more \in Seq(Messages) :
                sent = received \o more /\ IsFrames(buffer \o wire, more)

StreamTyped == StreamOf(Messages, wire, buffer, received)

LEMMA MessagesSized == Sized(Messages)
BY SizeAssumption DEF Sized

LEMMA EmptyIncomplete == \A stray \in Nat : ~Complete(<<>>, stray)
BY StreamAssumption DEF Complete

LEMMA InOrderEmpty ==
    ASSUME receiver' \in {"framer", "transport"}, wire' = <<>>, buffer' = <<>>, sent' = <<>>,
           received' = <<>>
    PROVE  InOrderInv'
<1>1. <<>> \in Seq(Messages) /\ sent' = received' \o <<>>
    OBVIOUS
<1>2. buffer' \o wire' = <<>>
    OBVIOUS
<1>3. IsFrames(buffer' \o wire', <<>>)
    BY <1>2, NoFrames
<1>4. \A stray \in Nat : ~Complete(buffer', stray)
    BY EmptyIncomplete
<1>5. QED
    BY <1>1, <1>3, <1>4 DEF InOrderInv

\* After a call has failed nothing is promised.
LEMMA InOrderFailed ==
    ASSUME InOrderInv, UNCHANGED <<receiver, buffer>>, failed' PROVE InOrderInv'
BY DEF InOrderInv

LEMMA InOrderPublish ==
    ASSUME StreamTyped, InOrderInv, NEW m \in Messages, Publish(m) PROVE InOrderInv'
<1>1. CASE SendFails(m)
    BY <1>1, InOrderFailed DEF SendFails
<1>2. CASE Send(m) /\ failed
    BY <1>2, InOrderFailed DEF Send
<1>3. CASE Send(m) /\ ~failed
    <2>1. /\ UNCHANGED <<receiver, buffer, received, failed>> /\ wire' = wire \o Frame(m)
          /\ sent' = Append(sent, m)
        BY <1>3 DEF Send
    <2>2. PICK more \in Seq(Messages) : sent = received \o more /\ IsFrames(buffer \o wire, more)
        BY <1>3 DEF InOrderInv
    <2>3. received \in Seq(Messages) /\ \A stray \in Nat : ~Complete(buffer, stray)
        BY <1>3 DEF InOrderInv
    <2> DEFINE next == Append(more, m)
    <2>4. next \in Seq(Messages) /\ sent' = received \o next
        <3>1. next = more \o <<m>> /\ <<m>> \in Seq(Messages) /\ next \in Seq(Messages)
            BY AppendIsConcat
        <3>2. sent' = (received \o more) \o <<m>>
            <4>1. received \o more \in Seq(Messages)
                BY <2>3
            <4>2. QED
                BY <2>1, <2>2, <4>1, AppendIsConcat
        <3> HIDE DEF next
        <3>3. QED
            BY <2>3, <3>1, <3>2, ConcatAssociative
    <2>5. IsFrames(buffer \o wire', next)
        <3> DEFINE B == Bytes(Messages)
        <3>1. buffer \in Seq(B) /\ wire \in Seq(B) /\ buffer \o wire \in Seq(B)
            BY DEF StreamTyped, StreamOf
        <3>2. Frame(m) \in Seq(B)
            BY FrameBytes, MessagesSized DEF Sized
        <3>3. IsFrames((buffer \o wire) \o Frame(m), next)
            BY <2>2, <3>1, MessagesSized, FramesThenFrame
        <3> HIDE DEF B, next
        <3>4. (buffer \o wire) \o Frame(m) = buffer \o (wire \o Frame(m))
            BY <3>1, <3>2, ConcatAssociative
        <3>5. QED
            BY <2>1, <3>3, <3>4
    <2> HIDE DEF next
    <2>6. QED
        BY <2>1, <2>3, <2>4, <2>5 DEF InOrderInv
<1>4. QED
    BY <1>1, <1>2, <1>3 DEF Publish

Regroups(a, b, c) == (a \o b) \o c = a \o (b \o c)

LEMMA Regrouping ==
    ASSUME NEW M, NEW a \in Seq(M), NEW b \in Seq(M), NEW c \in Seq(M)
    PROVE  Regroups(a, b, c)
BY ConcatAssociative DEF Regroups

LEMMA InOrderPush ==
    ASSUME StreamTyped, InOrderInv, Push PROVE InOrderInv'
<1>1. CASE failed
    BY <1>1 DEF Push, InOrderInv
<1>2. CASE ~failed
    <2> DEFINE B == Bytes(Messages)
    <2>1. PICK n \in 1 .. Len(wire), stray \in StrayLengths :
              LET framed == Framed(buffer \o SubSeq(wire, 1, n), stray) IN
              /\ wire' = From(wire, n + 1)
              /\ buffer' = framed.rest
              /\ received' = received \o framed.messages
        BY DEF Push
    <2> DEFINE bytes == buffer \o SubSeq(wire, 1, n)
               w     == From(wire, n + 1)
               out   == Framed(bytes, stray)
    <2>2. PICK more \in Seq(Messages) : sent = received \o more /\ IsFrames(buffer \o wire, more)
        BY <1>2 DEF InOrderInv
    <2>3. received \in Seq(Messages) /\ stray \in Nat
        BY <1>2, StreamAssumption DEF InOrderInv
    <2>4. buffer \in Seq(B) /\ wire \in Seq(B)
        BY DEF StreamTyped, StreamOf
    <2>5. w \in Seq(B) /\ SubSeq(wire, 1, n) \in Seq(B) /\ SubSeq(wire, 1, n) \o w = wire
        <3>1. n \in Nat /\ Len(wire) \in Nat /\ n <= Len(wire) /\ n + 1 \in 1 .. Len(wire) + 1
            BY <2>4
        <3>2. w \in Seq(B)
            BY <2>4, <3>1, FromTyped
        <3>3. SubSeq(wire, 1, n) \in Seq(B)
            <4>1. \A i \in 1 .. n : wire[i] \in B
                BY <2>4, <3>1
            <4> HIDE DEF B
            <4>2. QED
                BY <3>1, <4>1, SubSeqProperties
        <3>4. SubSeq(wire, 1, n) \o SubSeq(wire, n + 1, Len(wire)) = SubSeq(wire, 1, Len(wire))
            <4> HIDE DEF B
            <4>1. /\ 1 \in 1 .. Len(wire) + 1 /\ n \in 1 - 1 .. Len(wire)
                  /\ Len(wire) \in n .. Len(wire)
                BY <3>1
            <4>2. QED
                BY <2>4, <4>1, ConcatAdjacentSubSeq
        <3>5. SubSeq(wire, 1, Len(wire)) = wire
            <4> HIDE DEF B
            <4>1. QED
                BY <2>4, SubSeqFull
        <3>6. QED
            BY <3>2, <3>3, <3>4, <3>5 DEF From
    <2> HIDE DEF w
    <2>6. bytes \in Seq(B) /\ bytes \o w = buffer \o wire
        <3> HIDE DEF B
        <3>1. bytes \in Seq(B)
            BY <2>4, <2>5
        <3>2. bytes \o w = buffer \o (SubSeq(wire, 1, n) \o w)
            <4> DEFINE chunk == SubSeq(wire, 1, n)
            <4>1. chunk \in Seq(B) /\ w \in Seq(B) /\ buffer \in Seq(B)
                BY <2>4, <2>5
            <4> HIDE DEF chunk
            <4>2. Regroups(buffer, chunk, w)
                BY ONLY <4>1, Regrouping
            <4>3. QED
                BY <4>2 DEF Regroups, chunk
        <3>3. QED
            BY <2>5, <3>1, <3>2
    <2> HIDE DEF bytes
    <2>7. /\ out.messages \in Seq(Messages)
          /\ out.rest \in Seq(B)
          /\ \E rest \in Seq(Messages) : out.messages \o rest = more /\ IsFrames(out.rest \o w, rest)
        <3>1. /\ bytes \in Seq(Bytes(Messages)) /\ w \in Seq(Bytes(Messages))
              /\ more \in Seq(Messages) /\ IsFrames(bytes \o w, more) /\ stray \in Nat
            BY <2>2, <2>3, <2>5, <2>6
        <3>2. QED
            BY ONLY <3>1, MessagesSized, FramedTakesFrames
    <2>8. ~Complete(out.rest, stray)
        BY <2>3, <2>6, MessagesSized, FramedStops
    <2>9. /\ wire' = w /\ buffer' = out.rest /\ received' = received \o out.messages
          /\ UNCHANGED <<receiver, sent, failed>> /\ receiver = "framer"
        BY <2>1 DEF Push, w, bytes
    <2> HIDE DEF out
    <2>10. PICK rest \in Seq(Messages) :
               out.messages \o rest = more /\ IsFrames(out.rest \o w, rest)
        BY <2>7
    <2>11. \A x \in Nat : ~Complete(out.rest, x)
        <3>1. SUFFICES ASSUME NEW x \in Nat, Complete(out.rest, x) PROVE FALSE
            OBVIOUS
        <3>2. Len(out.rest) >= FRAME_HEADER_BYTES
            BY <3>1 DEF Complete
        <3>3. FrameLength(out.rest, x) = FrameLength(out.rest, stray)
            BY <2>3, <2>5, <2>7, <2>10, <3>2, MessagesSized, FirstIsFrame
        <3>4. QED
            BY <2>8, <3>1, <3>3 DEF Complete
    <2>12. sent' = received' \o rest /\ received' \in Seq(Messages)
        <3> DEFINE taken == out.messages
        <3>1. /\ taken \in Seq(Messages) /\ rest \in Seq(Messages) /\ received \in Seq(Messages)
              /\ received' = received \o taken /\ sent' = sent
              /\ sent = received \o (taken \o rest)
            BY <2>2, <2>3, <2>7, <2>9, <2>10
        <3> HIDE DEF taken, B
        <3>2. Regroups(received, taken, rest)
            BY ONLY <3>1, Regrouping
        <3>3. received \o taken \in Seq(Messages)
            BY ONLY <3>1, ConcatProperties
        <3>4. QED
            BY ONLY <3>1, <3>2, <3>3 DEF Regroups
    <2>13. IsFrames(buffer' \o wire', rest)
        BY <2>9, <2>10
    <2>14. \A x \in Nat : ~Complete(buffer', x)
        BY <2>9, <2>11
    <2>15. QED
        BY <2>9, <2>12, <2>13, <2>14 DEF InOrderInv
<1>3. QED
    BY <1>1, <1>2

LEMMA InOrderReceive ==
    ASSUME StreamTyped, InOrderInv, Receive PROVE InOrderInv'
<1>1. CASE failed
    BY <1>1 DEF Receive, InOrderInv
<1>2. CASE ~failed
    <2> DEFINE B == Bytes(Messages)
    <2>1. PICK stray \in StrayLengths :
              /\ Complete(wire, stray)
              /\ wire' = AfterFirst(wire, stray)
              /\ received' = Append(received, Decode(FirstPayload(wire, stray)))
        BY DEF Receive
    <2>2. PICK more \in Seq(Messages) : sent = received \o more /\ IsFrames(buffer \o wire, more)
        BY <1>2 DEF InOrderInv
    <2>3. /\ received \in Seq(Messages) /\ stray \in Nat /\ buffer = <<>>
          /\ \A x \in Nat : ~Complete(buffer, x)
          /\ UNCHANGED <<receiver, buffer, sent, failed>>
        BY <1>2, StreamAssumption DEF InOrderInv, Receive
    <2>4. wire \in Seq(B) /\ <<>> \in Seq(B)
        BY DEF StreamTyped, StreamOf
    <2>5. buffer \o wire = wire /\ wire \o <<>> = wire
        <3> HIDE DEF B
        <3>1. QED
            BY <2>3, <2>4, ConcatEmptySeq
    <2>6. /\ more # <<>> /\ more[1] \in Messages
          /\ Decode(FirstPayload(wire, stray)) = more[1]
          /\ AfterFirst(wire, stray) \in Seq(B)
          /\ IsFrames(AfterFirst(wire, stray) \o <<>>, Tail(more))
        BY <2>1, <2>2, <2>3, <2>4, <2>5, MessagesSized, TurnTakesFirst
    <2>7. buffer' \o wire' = AfterFirst(wire, stray) \o <<>>
        <3> HIDE DEF B
        <3>1. QED
            BY <2>1, <2>3, <2>6, ConcatEmptySeq
    <2>8. Moves(Messages, received, more)
        BY <2>3, <2>6, TakeFirst
    <2>9. /\ received' \in Seq(Messages) /\ Tail(more) \in Seq(Messages)
          /\ sent' = received' \o Tail(more)
        BY <2>1, <2>2, <2>3, <2>6, <2>8 DEF Moves
    <2>10. QED
        BY <2>3, <2>6, <2>7, <2>9 DEF InOrderInv, Receive
<1>3. QED
    BY <1>1, <1>2

LEMMA InOrderHandled ==
    ASSUME InOrderInv, Handled PROVE InOrderInv'
<1>1. CASE failed
    BY <1>1 DEF Handled, InOrderInv
<1>2. CASE ~failed
    <2>1. PICK more \in Seq(Messages) : sent = received \o more /\ IsFrames(buffer \o wire, more)
        BY <1>2 DEF InOrderInv
    <2>2. /\ received # <<>> /\ received \in Seq(Messages)
          /\ received' = Tail(received) /\ sent' = Tail(sent)
          /\ UNCHANGED <<receiver, wire, buffer, failed>>
        BY <1>2 DEF Handled, InOrderInv
    <2>3. Tail(received) \in Seq(Messages) /\ Tail(received \o more) = Tail(received) \o more
        <3> DEFINE a == Tail(received \o more)
                   b == Tail(received) \o more
        <3>1. /\ Tail(received) \in Seq(Messages) /\ Len(Tail(received)) = Len(received) - 1
              /\ \A i \in 1 .. Len(Tail(received)) : Tail(received)[i] = received[i + 1]
            BY <2>2, HeadTailProperties
        <3>2. /\ received \o more \in Seq(Messages)
              /\ Len(received \o more) = Len(received) + Len(more)
              /\ \A i \in 1 .. Len(received) + Len(more) : (received \o more)[i] =
                    IF i <= Len(received) THEN received[i] ELSE more[i - Len(received)]
              /\ Len(received) \in Nat \ {0} /\ Len(more) \in Nat
            BY <2>2, ConcatProperties
        <3>3. received \o more # <<>>
            BY <3>2
        <3>4. /\ a \in Seq(Messages) /\ Len(a) = Len(received) + Len(more) - 1
              /\ \A i \in 1 .. Len(a) : a[i] = (received \o more)[i + 1]
            BY <3>2, <3>3, HeadTailProperties
        <3>5. /\ b \in Seq(Messages) /\ Len(b) = Len(Tail(received)) + Len(more)
              /\ \A i \in 1 .. Len(Tail(received)) + Len(more) : b[i] =
                    IF i <= Len(Tail(received)) THEN Tail(received)[i]
                    ELSE more[i - Len(Tail(received))]
            BY <3>1, ConcatProperties
        <3> HIDE DEF a, b
        <3>6. ASSUME NEW i \in 1 .. Len(a) PROVE a[i] = b[i]
            <4>1. /\ i \in Nat /\ 1 <= i /\ i + 1 \in 1 .. Len(received) + Len(more)
                  /\ i \in 1 .. Len(Tail(received)) + Len(more)
                BY <3>1, <3>2, <3>4
            <4>2. CASE i + 1 <= Len(received)
                <5>1. i <= Len(Tail(received)) /\ i \in 1 .. Len(Tail(received))
                    BY <3>1, <3>2, <4>1, <4>2
                <5>2. QED
                    BY <3>1, <3>2, <3>4, <3>5, <4>1, <4>2, <5>1
            <4>3. CASE ~(i + 1 <= Len(received))
                <5>1. /\ ~(i <= Len(Tail(received)))
                      /\ (i + 1) - Len(received) = i - Len(Tail(received))
                    BY <3>1, <3>2, <4>1, <4>3
                <5>2. QED
                    BY <3>2, <3>4, <3>5, <4>1, <4>3, <5>1
            <4>4. QED
                BY <4>2, <4>3
        <3>7. Len(a) = Len(b)
            BY <3>1, <3>2, <3>4, <3>5
        <3>8. a = b
            BY <3>4, <3>5, <3>6, <3>7, SeqEqual
        <3>9. QED
            BY <3>1, <3>8 DEF a, b
    <2>4. QED
        BY <1>2, <2>1, <2>2, <2>3 DEF InOrderInv
<1>3. QED
    BY <1>1, <1>2

LEMMA InvStreamTyped == ASSUME ReplicationInv PROVE StreamTyped
<1>1. Published(held) \subseteq Messages
    BY DEF Published
<1>2. QED
    BY <1>1, StreamMonotone DEF ReplicationInv, StreamTyped

\* One step.
LEMMA InOrderStep ==
    ASSUME ReplicationInv, InOrderInv, [Next]_vars PROVE InOrderInv'
<1>1. StreamTyped
    BY InvStreamTyped
<1>2. CASE UNCHANGED streamVars
    BY <1>2 DEF streamVars, InOrderInv
<1>3. ASSUME NEW m \in Messages, Publish(m) PROVE InOrderInv'
    BY <1>1, <1>3, InOrderPublish
<1>4. CASE Put
    <2>1. PICK e \in Documents :
              IF Registered(e.type) THEN Publish(PutMessage(e)) ELSE UNCHANGED streamVars
        BY <1>4 DEF Put
    <2>2. Registered(e.type) => PutMessage(e) \in Messages
        BY DEF Messages, Mentioned
    <2>3. QED
        BY <1>2, <1>3, <2>1, <2>2
<1>5. CASE Delete
    <2>1. PICK e \in origin :
              Registered(e.type) /\ Publish(DeleteMessage(SchemaOf(e.type), e.key))
        BY <1>5 DEF Delete
    <2>2. e \in Documents
        BY DEF ReplicationInv
    <2>3. DeleteMessage(SchemaOf(e.type), e.key) \in Messages
        BY <2>1, <2>2 DEF Messages, Mentioned
    <2>4. QED
        BY <1>3, <2>1, <2>3
<1>6. CASE ServeSnapshot \/ ServeQuery
    <2>1. UNCHANGED streamVars \/ \E m \in Published(origin) : Publish(m)
        BY <1>6, ServePublishes
    <2>2. Published(origin) \subseteq Messages
        BY DEF Published
    <2>3. QED
        BY <1>2, <1>3, <2>1, <2>2
<1>7. CASE Push
    BY <1>1, <1>7, InOrderPush
<1>8. CASE Receive
    BY <1>1, <1>8, InOrderReceive
<1>9. CASE ReceiveFails
    BY <1>9, InOrderFailed DEF ReceiveFails
<1>10. CASE Handle
    BY <1>10, InOrderHandled DEF Handle
<1>11. CASE \E q \in Queries : Ask(q)
    BY <1>2, <1>11 DEF Ask
<1>12. CASE Reconnect
    <2>1. /\ receiver' \in {"framer", "transport"} /\ wire' = <<>> /\ buffer' = <<>>
          /\ sent' = <<>> /\ received' = <<>>
        BY <1>12 DEF Reconnect, NewStream, InOrderInv
    <2>2. QED
        BY <2>1, InOrderEmpty
<1>13. CASE UNCHANGED vars
    BY <1>2, <1>13 DEF vars
<1>14. QED
    BY <1>4, <1>5, <1>6, <1>7, <1>8, <1>9, <1>10, <1>11, <1>12, <1>13 DEF Next

LEMMA InOrderInit == ASSUME Init PROVE InOrderInv
<1>1. /\ receiver \in {"framer", "transport"} /\ wire = <<>> /\ buffer = <<>> /\ sent = <<>>
      /\ received = <<>>
    BY DEF Init, InitStream
<1>2. <<>> \in Seq(Messages) /\ sent = received \o <<>> /\ buffer \o wire = <<>>
    BY <1>1
<1>3. IsFrames(buffer \o wire, <<>>)
    BY <1>2, NoFrames
<1>4. \A stray \in Nat : ~Complete(buffer, stray)
    BY <1>1, EmptyIncomplete
<1>5. QED
    BY <1>1, <1>2, <1>3, <1>4 DEF InOrderInv

LEMMA StartIsPrefix ==
    ASSUME NEW S, NEW a \in Seq(S), NEW b \in Seq(S) PROVE IsPrefix(a, a \o b)
<1> DEFINE n   == Len(a)
           all == a \o b
           y   == SubSeq(all, 1, n)
<1>1. /\ n \in Nat /\ Len(all) = n + Len(b) /\ n <= Len(all)
      /\ \A i \in 1 .. n : a[i] \in S /\ all[i] = a[i]
    <2>1. n \in Nat /\ Len(b) \in Nat
        OBVIOUS
    <2>2. \A i \in 1 .. n : i \in 1 .. n + Len(b) /\ i <= n
        BY <2>1
    <2>3. QED
        BY <2>1, <2>2, ConcatProperties
<1>2. SubSeq(a, 1, n) = a
    BY SubSeqFull
<1> HIDE DEF all
<1>3. /\ y \in Seq(S) /\ Len(y) = n
      /\ \A i \in 1 .. n : y[i] = all[i]
    <2>1. \A i \in 1 .. n : all[i] \in S
        BY <1>1
    <2>2. /\ n \in Int /\ 1 \in Int /\ (IF 1 <= n THEN n - 1 + 1 ELSE 0) = n
          /\ \A i \in 1 .. n : i \in 1 .. n - 1 + 1 /\ 1 + i - 1 = i
        BY <1>1
    <2> HIDE DEF n
    <2>3. /\ SubSeq(all, 1, n) \in Seq(S)
          /\ Len(SubSeq(all, 1, n)) = IF 1 <= n THEN n - 1 + 1 ELSE 0
          /\ \A i \in 1 .. n - 1 + 1 : SubSeq(all, 1, n)[i] = all[1 + i - 1]
        BY <2>1, <2>2, SubSeqProperties
    <2>4. QED
        BY <2>2, <2>3
<1> HIDE DEF y
<1>4. y = a
    BY <1>1, <1>3, SeqEqual
<1>5. QED
    BY <1>1, <1>2, <1>4 DEF IsPrefix, y, all

\* The frames of what is not received are all there, so the bytes are.
LEMMA InOrderMeans == ASSUME StreamTyped, InOrderInv PROVE ReceivedAsSent /\ NothingHeldBack
<1>1. SUFFICES ASSUME ~failed
               PROVE  /\ IsPrefix(received, sent)
                      /\ wire = <<>> => buffer = <<>> /\ Len(received) = Len(sent)
    BY DEF ReceivedAsSent, NothingHeldBack
<1>2. PICK more \in Seq(Messages) : sent = received \o more /\ IsFrames(buffer \o wire, more)
    BY <1>1 DEF InOrderInv
<1>3. received \in Seq(Messages) /\ \A stray \in Nat : ~Complete(buffer, stray)
    BY <1>1 DEF InOrderInv
<1>4. IsPrefix(received, sent)
    BY <1>2, <1>3, StartIsPrefix
<1>5. ASSUME wire = <<>> PROVE buffer = <<>> /\ Len(received) = Len(sent)
    <2> DEFINE B == Bytes(Messages)
    <2>1. buffer \in Seq(B) /\ <<>> \in Seq(B)
        BY DEF StreamTyped, StreamOf
    <2> HIDE DEF B
    <2>2. buffer \o <<>> = buffer /\ Len(buffer) \in Nat
        BY <2>1, ConcatEmptySeq
    <2>3. IsFrames(buffer, more)
        BY <1>2, <1>5, <2>2
    <2>4. Len(buffer) = 0
        <3>1. SUFFICES ASSUME Len(buffer) > 0 PROVE FALSE
            BY <2>2
        <3>2. /\ Size(more[1]) \in Nat \ {0}
              /\ FRAME_HEADER_BYTES + Size(more[1]) <= Len(buffer)
            BY <2>2, <2>3, <3>1, MessagesSized, FirstFrame
        <3>3. FRAME_HEADER_BYTES \in Nat \ {0} /\ 0 \in Nat
            BY StreamAssumption
        <3>4. Len(buffer) >= FRAME_HEADER_BYTES
            BY <2>2, <3>2, <3>3
        <3>5. ASSUME NEW stray \in Nat
              PROVE  FrameLength(buffer, stray) = FRAME_HEADER_BYTES + Size(more[1])
            <4> DEFINE w == <<>>
            <4>1. /\ buffer \in Seq(Bytes(Messages)) /\ w \in Seq(Bytes(Messages))
                  /\ IsFrames(buffer \o w, more)
                BY <2>1, <2>2, <2>3 DEF B
            <4> HIDE DEF w
            <4>2. QED
                BY <3>4, <4>1, MessagesSized, FirstIsFrame
        <3>6. Complete(buffer, 0)
            BY <3>2, <3>4, <3>5 DEF Complete
        <3>7. QED
            BY <1>3, <3>3, <3>6
    <2>5. buffer = <<>>
        BY <2>1, <2>4, EmptySeq
    <2>6. more = <<>>
        BY <2>3, <2>5, MessagesSized, NothingLeft
    <2>7. sent = received
        BY <1>2, <1>3, <2>6, ConcatEmptySeq
    <2>8. QED
        BY <2>5, <2>7
<1>6. QED
    BY <1>4, <1>5

\* While no send or receive has failed on a connection, what the follower gets
\* out of the stream is what the origin put into it, in that order: nothing
\* lost, doubled, torn or joined, wherever the chunks were cut and whichever of
\* the framer and the transport reads.
THEOREM ReceivedInOrder == Spec => []ReceivedAsSent
<1>1. Init => ReplicationInv /\ InOrderInv
    BY InvInit, InOrderInit
<1>2. ReplicationInv /\ InOrderInv /\ [Next]_vars => ReplicationInv' /\ InOrderInv'
    BY InvStep, InOrderStep
<1>3. ReplicationInv /\ InOrderInv => ReceivedAsSent
    BY InvStreamTyped, InOrderMeans
<1>4. QED
    BY <1>1, <1>2, <1>3, PTL DEF Spec

\* Nor does the framer keep a message whose bytes have all come: once the wire
\* is empty its buffer is, and all that was sent is received.
THEOREM ReceivedWhole == Spec => []NothingHeldBack
<1>1. Init => ReplicationInv /\ InOrderInv
    BY InvInit, InOrderInit
<1>2. ReplicationInv /\ InOrderInv /\ [Next]_vars => ReplicationInv' /\ InOrderInv'
    BY InvStep, InOrderStep
<1>3. ReplicationInv /\ InOrderInv => NothingHeldBack
    BY InvStreamTyped, InOrderMeans
<1>4. QED
    BY <1>1, <1>2, <1>3, PTL DEF Spec

-----------------------------------------------------------------------------
(* The inductive invariant of queries: the answer that is under way to the *)
(* query that waits was made of a cache that the origin had since.         *)

\* What a query may be answered from.
Tellable(cache) ==
    cache \subseteq Documents /\ IsFiniteSet(cache) /\ \A e \in cache : Registered(e.type)

AnswerOf(cache, q) == Answer(Source(cache), Request(q))

Timely(question, open, seen) ==
    {m \in Messages :
        m.kind = "answer" =>
            /\ m.id \notin open
            /\ question # NoQuery /\ m.id = question =>
                  \E cache \in seen : Tellable(cache) /\ m = AnswerOf(cache, question)}

QueryInv ==
    /\ unasked \subseteq Queries
    /\ asking # NoQuery => asking \in Queries \ unasked /\ origin \in views
    /\ requests \in Seq({"snapshot"} \cup (Queries \ unasked))
    /\ StreamOf(Timely(asking, unasked, views), wire, buffer, received)
    /\ AnswersAreViews

\* What an answer tells, when the query accepts it, is a view of the cache it
\* was made of.
LEMMA AcceptedTells ==
    ASSUME NEW cache, Tellable(cache), NEW q \in Queries, Accepts(q, AnswerOf(cache, q))
    PROVE  ToSet(AnswerOf(cache, q).documents) =
              {r \in {Sourced(e) : e \in {x \in cache : Registered(x.type)}} :
                  /\ Identity(r) \in Granted
                  /\ \E x \in Expected[q] : Identity(x) = Identity(r)}
<1> DEFINE S    == {Sourced(e) : e \in cache}
           docs == AnswerOf(cache, q).documents
<1>1. {Sourced(e) : e \in {x \in cache : Registered(x.type)}} = S
    BY DEF Tellable
<1>2. IsFiniteSet(S)
    <2> DEFINE f == [e \in cache |-> Sourced(e)]
    <2>1. IsFiniteSet(cache)
        BY DEF Tellable
    <2>2. f \in Surjection(cache, S)
        BY DEF Surjection
    <2> HIDE DEF f, S
    <2>3. QED
        BY <2>1, <2>2, FS_Surjection
<1>3. Source(cache) \in Seq(S) /\ ToSet(Source(cache)) = S
    BY <1>2, SetListed DEF Source
<1> HIDE DEF S
<1>4. ToSet(docs) = {r \in S : Selects(Request(q), r)}
    BY <1>3, AnswerTells DEF AnswerOf
<1>5. ASSUME NEW r \in ToSet(docs)
      PROVE  \E x \in Expected[q] : Identity(x) = Identity(r)
    BY <1>5 DEF Accepts, ToSet
<1> HIDE DEF docs
<1>6. ASSUME NEW r \in S, Identity(r) \in Granted,
             NEW x \in Expected[q], Identity(x) = Identity(r)
      PROVE  Selects(Request(q), r)
    <2>1. x.schema = r.schema /\ x.key = r.key
        BY <1>6 DEF Identity
    <2>2. QED
        BY <1>6, <2>1 DEF Selects, Request
<1>7. \A r : Selects(Request(q), r) => Identity(r) \in Granted
    BY DEF Selects
<1>8. ToSet(docs) = {r \in S : /\ Identity(r) \in Granted
                               /\ \E x \in Expected[q] : Identity(x) = Identity(r)}
    BY <1>4, <1>5, <1>6, <1>7
<1>9. QED
    BY <1>1, <1>8 DEF docs

\* What is under way stays timely when queries are asked or given up and the
\* origin's cache changes.
LEMMA TimelyMonotone ==
    ASSUME NEW a, NEW open, NEW more, open \subseteq more, NEW seen, NEW b, NEW wider,
           b = NoQuery \/ (b = a /\ seen \subseteq wider) \/ b \in more
    PROVE  Timely(a, more, seen) \subseteq Timely(b, open, wider)
BY DEF Timely

LEMMA QueryInit == ASSUME Init PROVE QueryInv
BY NewStreamOf DEF Init, InitStream, QueryInv, AnswersAreViews

\* The origin's changes.
LEMMA QueryStream ==
    ASSUME ReplicationInv, QueryInv, UNCHANGED <<asking, unasked>>, views \subseteq views',
           UNCHANGED streamVars \/ \E m \in Timely(asking', unasked', views') : Publish(m)
    PROVE  StreamOf(Timely(asking', unasked', views'), wire', buffer', received')
<1> DEFINE M == Timely(asking', unasked', views')
<1>1. Timely(asking, unasked, views) \subseteq M
    BY TimelyMonotone
<1> HIDE DEF M
<1>2. StreamOf(M, wire, buffer, received)
    BY <1>1, StreamMonotone DEF QueryInv
<1>3. CASE UNCHANGED streamVars
    BY <1>2, <1>3 DEF streamVars, M
<1>4. ASSUME NEW m \in M, Publish(m) PROVE StreamOf(M, wire', buffer', received')
    <2>1. Size(m) \in Nat
        BY SizeAssumption DEF M, Timely
    <2>2. QED
        BY <1>2, <1>4, <2>1, PublishKeeps
<1>5. QED
    BY <1>3, <1>4 DEF M

LEMMA ViewsGrow ==
    ASSUME AnswersAreViews, UNCHANGED accepted, views \subseteq views'
    PROVE  AnswersAreViews'
BY DEF AnswersAreViews

LEMMA QueryChanged ==
    ASSUME ReplicationInv, QueryInv, NEW cache, Changed(cache),
           UNCHANGED streamVars \/ \E m \in Messages : m.kind # "answer" /\ Publish(m)
    PROVE  QueryInv'
<1>1. /\ UNCHANGED <<asking, unasked, requests, accepted>> /\ origin' = cache
      /\ views' = IF asking = NoQuery THEN views ELSE views \cup {cache}
    BY DEF Changed
<1>2. views \subseteq views' /\ (asking # NoQuery => origin' \in views')
    BY <1>1
<1>3. \A m \in Messages : m.kind # "answer" => m \in Timely(asking', unasked', views')
    BY DEF Timely
<1>4. StreamOf(Timely(asking', unasked', views'), wire', buffer', received')
    BY <1>1, <1>2, <1>3, QueryStream
<1>5. AnswersAreViews'
    BY <1>1, <1>2, ViewsGrow DEF QueryInv
<1>6. QED
    BY <1>1, <1>2, <1>4, <1>5 DEF QueryInv

LEMMA QueryPut == ASSUME ReplicationInv, QueryInv, Put PROVE QueryInv'
<1>1. PICK e \in Documents :
          /\ Changed(Stored(origin, e))
          /\ IF Registered(e.type) THEN Publish(PutMessage(e)) ELSE UNCHANGED streamVars
    BY DEF Put
<1>2. Registered(e.type) => PutMessage(e) \in Messages
    BY DEF Messages, Mentioned
<1>3. PutMessage(e).kind # "answer"
    BY DEF PutMessage
<1>4. QED
    BY <1>1, <1>2, <1>3, QueryChanged

LEMMA QueryDelete == ASSUME ReplicationInv, QueryInv, Delete PROVE QueryInv'
<1>1. PICK e \in origin :
          /\ Registered(e.type)
          /\ Changed(origin \ {e})
          /\ Publish(DeleteMessage(SchemaOf(e.type), e.key))
    BY DEF Delete
<1>2. e \in Documents
    BY DEF ReplicationInv
<1>3. DeleteMessage(SchemaOf(e.type), e.key) \in Messages
    BY <1>1, <1>2 DEF Messages, Mentioned
<1>4. DeleteMessage(SchemaOf(e.type), e.key).kind # "answer"
    BY DEF DeleteMessage
<1>5. QED
    BY <1>1, <1>3, <1>4, QueryChanged

\* Serving: an answer is made of the cache of this moment.
LEMMA QueryServe == ASSUME ReplicationInv, QueryInv, ServeSnapshot \/ ServeQuery PROVE QueryInv'
<1> DEFINE R == {"snapshot"} \cup (Queries \ unasked)
<1>1. /\ UNCHANGED <<asking, unasked, accepted, views, origin>>
      /\ requests # <<>> /\ requests' = Tail(requests)
    BY DEF ServeSnapshot, ServeQuery, Take
<1>2. requests \in Seq(R) /\ Head(requests) \in R /\ requests' \in Seq(R)
    <2>1. requests \in Seq(R)
        BY DEF QueryInv
    <2> HIDE DEF R
    <2>2. QED
        BY <1>1, <2>1, HeadTailProperties
<1>3. UNCHANGED streamVars \/ \E m \in Timely(asking', unasked', views') : Publish(m)
    <2>1. CASE ServeSnapshot
        <3>1. PICK schemas \in {KnownSchemas, {SchemaOf(Type)}} :
                  \/ \E m \in SnapshotMessages(origin, schemas, Keys) : Publish(m)
                  \/ UNCHANGED streamVars
            BY <2>1 DEF ServeSnapshot
        <3>2. ASSUME NEW m \in SnapshotMessages(origin, schemas, Keys)
              PROVE  m \in Timely(asking', unasked', views')
            <4>1. m \in Messages
                BY SnapshotPublished DEF ReplicationInv, Published
            <4>2. m.kind = "snapshot"
                <5> DEFINE all == SetToSeqs({Record(e) : e \in
                               {x \in origin : SchemaOf(x.type) \in schemas /\ x.key \in Keys}})
                <5>1. \E documents \in all : m = [kind |-> "snapshot", documents |-> documents]
                    BY DEF SnapshotMessages
                <5> HIDE DEF all
                <5>2. QED
                    BY <5>1
            <4>3. QED
                BY <4>1, <4>2 DEF Timely
        <3>3. QED
            BY <3>1, <3>2
    <2>2. CASE ServeQuery
        <3>1. CASE /\ \A e \in origin : Registered(e.type)
                   /\ Servable(Source(origin), KnownSchemas)
            <4> DEFINE q == Head(requests)
            <4>1. q \in Queries /\ Publish(AnswerOf(origin, q))
                BY <2>2, <3>1 DEF ServeQuery, AnswerOf
            <4>2. q \notin unasked
                BY <1>2, <4>1, ReplicationAssumption
            <4> HIDE DEF q
            <4>3. AnswerOf(origin, q) \in Messages /\ Tellable(origin)
                BY <3>1, <4>1, AnswerPublished DEF ReplicationInv, Published, AnswerOf, Tellable
            <4>4. AnswerOf(origin, q).id = q
                BY DEF AnswerOf, Answer, Request
            <4>5. asking # NoQuery => origin \in views
                BY DEF QueryInv
            <4>6. AnswerOf(origin, q) \in Timely(asking', unasked', views')
                BY <1>1, <4>2, <4>3, <4>4, <4>5 DEF Timely
            <4>7. QED
                BY <4>1, <4>6
        <3>2. CASE ~(/\ \A e \in origin : Registered(e.type)
                     /\ Servable(Source(origin), KnownSchemas))
            BY <2>2, <3>2 DEF ServeQuery
        <3>3. QED
            BY <3>1, <3>2
    <2>3. QED
        BY <2>1, <2>2
<1>4. StreamOf(Timely(asking', unasked', views'), wire', buffer', received')
    BY <1>1, <1>3, QueryStream
<1>5. AnswersAreViews'
    BY <1>1, ViewsGrow DEF QueryInv
<1>6. QED
    BY <1>1, <1>2, <1>4, <1>5 DEF QueryInv

LEMMA QueryRead ==
    ASSUME QueryInv, Push \/ Receive \/ ReceiveFails, UNCHANGED programVars
    PROVE  QueryInv'
<1> DEFINE M == Timely(asking, unasked, views)
<1>1. \A m \in M : Size(m) \in Nat
    BY SizeAssumption DEF Timely
<1>2. StreamOf(M, wire, buffer, received)
    BY DEF QueryInv
<1> HIDE DEF M
<1>3. StreamOf(M, wire', buffer', received')
    BY <1>1, <1>2, ReadKeeps
<1>4. QED
    BY <1>3 DEF QueryInv, AnswersAreViews, programVars, M

\* An answer is judged by the query that waits.
LEMMA QueryHandle == ASSUME ReplicationInv, QueryInv, Handle PROVE QueryInv'
<1> DEFINE M == Timely(asking, unasked, views)
           m == Head(received)
<1>1. UNCHANGED <<origin, requests, unasked>> /\ Handled
    BY DEF Handle
<1>2. StreamOf(M, wire', buffer', received') /\ m \in M \cup {Undecodable}
    <2>1. StreamOf(M, wire, buffer, received)
        BY DEF QueryInv
    <2> HIDE DEF M
    <2>2. QED
        BY <1>1, <2>1, HandledKeeps DEF Decoded
<1>3. CASE UNCHANGED <<asking, accepted, views>>
    BY <1>1, <1>2, <1>3, ViewsGrow DEF QueryInv
<1>4. CASE m.kind = "answer" /\ Judged(m)
    <2>1. /\ asking' = NoQuery
          /\ views' = IF accepted' = {} THEN {} ELSE views
        BY <1>4 DEF Judged
    <2>2. M \subseteq Timely(asking', unasked', views')
        BY <1>1, <2>1, TimelyMonotone
    <2> HIDE DEF M
    <2>3. StreamOf(Timely(asking', unasked', views'), wire', buffer', received')
        BY <1>2, <2>2, StreamMonotone
    <2>4. AnswersAreViews'
        <3>1. CASE accepted' = {}
            BY <3>1 DEF AnswersAreViews
        <3>2. CASE accepted' # {} /\ accepted' = accepted
            BY <2>1, <3>2, ViewsGrow DEF QueryInv
        <3>3. CASE /\ asking # NoQuery /\ Accepts(asking, m)
                   /\ accepted' = {[query |-> asking, documents |-> ToSet(m.documents)]}
            <4>1. m \in M
                BY <1>2, <1>4 DEF Undecodable
            <4>2. m.id = asking
                BY <3>3 DEF Accepts
            <4>3. PICK cache \in views : Tellable(cache) /\ m = AnswerOf(cache, asking)
                BY <1>4, <3>3, <4>1, <4>2 DEF M, Timely
            <4>4. asking \in Queries
                BY <3>3 DEF QueryInv
            <4>5. ToSet(m.documents) =
                    {r \in {Sourced(e) : e \in {x \in cache : Registered(x.type)}} :
                        /\ Identity(r) \in Granted
                        /\ \E x \in Expected[asking] : Identity(x) = Identity(r)}
                BY <3>3, <4>3, <4>4, AcceptedTells
            <4>6. views' = views
                BY <2>1, <3>3
            <4> HIDE DEF m
            <4>7. \A a \in accepted' :
                    a.query = asking /\ a.documents = ToSet(m.documents)
                BY <3>3
            <4>8. QED
                BY <4>3, <4>5, <4>6, <4>7 DEF AnswersAreViews
        <3>4. QED
            BY <1>4, <3>1, <3>2, <3>3 DEF Judged
    <2>5. QED
        BY <1>1, <2>1, <2>3, <2>4 DEF QueryInv
<1>5. QED
    BY <1>3, <1>4 DEF Handle

LEMMA QueryAsk == ASSUME ReplicationInv, QueryInv, NEW q \in Queries, Ask(q) PROVE QueryInv'
<1>1. /\ q \in unasked /\ unasked' = unasked \ {q} /\ asking' = q
      /\ requests' = Append(requests, q) /\ accepted' = {} /\ views' = {origin}
      /\ UNCHANGED <<streamVars, origin>>
    BY DEF Ask
<1>2. unasked' \subseteq Queries /\ q \in Queries \ unasked'
    BY <1>1 DEF QueryInv
<1>3. requests' \in Seq({"snapshot"} \cup (Queries \ unasked'))
    <2> DEFINE R == {"snapshot"} \cup (Queries \ unasked')
    <2>1. {"snapshot"} \cup (Queries \ unasked) \subseteq R /\ q \in R
        BY <1>1, <1>2
    <2>2. requests \in Seq(R)
        <3>1. requests \in Seq({"snapshot"} \cup (Queries \ unasked))
            BY DEF QueryInv
        <3> HIDE DEF R
        <3>2. QED
            BY <2>1, <3>1, SeqMonotonic
    <2> HIDE DEF R
    <2>3. QED
        BY <1>1, <2>1, <2>2 DEF R
<1>4. StreamOf(Timely(asking', unasked', views'), wire', buffer', received')
    <2>1. Timely(asking, unasked, views) \subseteq Timely(asking', unasked', views')
        BY <1>1, TimelyMonotone
    <2>2. QED
        BY <1>1, <2>1, StreamMonotone DEF QueryInv, streamVars
<1>5. AnswersAreViews'
    BY <1>1 DEF AnswersAreViews
<1>6. QED
    BY <1>1, <1>2, <1>3, <1>4, <1>5 DEF QueryInv

LEMMA QueryReconnect == ASSUME QueryInv, Reconnect PROVE QueryInv'
<1>1. /\ UNCHANGED unasked /\ requests' = <<"snapshot">> /\ asking' = NoQuery
      /\ accepted' = {} /\ wire' = <<>> /\ buffer' = <<>> /\ received' = <<>>
    BY DEF Reconnect, NewStream
<1>2. StreamOf(Timely(asking', unasked', views'), wire', buffer', received')
    BY <1>1, NewStreamOf
<1>3. QED
    BY <1>1, <1>2 DEF QueryInv, AnswersAreViews

LEMMA QueryStep == ASSUME ReplicationInv, QueryInv, [Next]_vars PROVE QueryInv'
<1>1. CASE UNCHANGED vars
    BY <1>1 DEF vars, streamVars, programVars, QueryInv, AnswersAreViews
<1>2. QED
    BY <1>1, QueryPut, QueryDelete, QueryServe, QueryRead, QueryHandle, QueryAsk, QueryReconnect
    DEF Next

\* An accepted answer is exactly what the query expects and the policy grants
\* of a cache that the origin had between the query and its answer: answers to
\* queries that were given up are never taken for it, and nothing of another
\* moment is mixed in.
THEOREM AcceptedAnswersAreViews == Spec => []AnswersAreViews
<1>1. Init => ReplicationInv /\ QueryInv
    BY InvInit, QueryInit
<1>2. ReplicationInv /\ QueryInv /\ [Next]_vars => ReplicationInv' /\ QueryInv'
    BY InvStep, QueryStep
<1>3. QueryInv => AnswersAreViews
    BY DEF QueryInv
<1>4. QED
    BY <1>1, <1>2, <1>3, PTL DEF Spec

-----------------------------------------------------------------------------
(* The follower catches up.  For each key that is not contested, the last  *)
(* message under way that speaks of it tells what the origin has; when     *)
(* none does, the follower has it already, or was away when it went, or    *)
(* still waits for its snapshot.                                           *)

\* A document, as the follower stores it.
Copy(d) == [type |-> Type, key |-> d.key, payload |-> d.payload]

At(cache, k) == {e \in cache : e.key = k}

\* The origin's documents that the follower takes for its own under a key.
Mine(cache, k) ==
    {x \in cache : Registered(x.type) /\ SchemaOf(x.type) = SchemaOf(Type) /\ x.key = k}

Want(cache, k) == {Copy(x) : x \in Mine(cache, k)}

DocumentsOf(m) ==
    IF m.kind = "put" THEN {m.document}
    ELSE IF m.kind = "snapshot" THEN ToSet(m.documents) ELSE {}

\* What the follower has under the key once it has applied the message: a set
\* for each document of that key, or nothing if the message is silent about it.
Says(m, k) ==
    {{Copy(d)} : d \in {x \in DocumentsOf(m) : x.schema = SchemaOf(Type) /\ x.key = k}}
    \cup {x \in {{}} : m.kind = "delete" /\ m.schema = SchemaOf(Type) /\ m.key = k}

\* Of messages under way, the wanted documents of a key, what the follower has
\* of them, what it missed and whether it joined.
Fits(msgs, k, want, have, gone, in) ==
    /\ \A i \in DOMAIN msgs :
          /\ Says(msgs[i], k) # {}
          /\ \A j \in DOMAIN msgs : j > i => Says(msgs[j], k) = {}
          => Says(msgs[i], k) = {want}
    /\ (\A i \in DOMAIN msgs : Says(msgs[i], k) = {}) =>
          \/ have = want
          \/ want = {} /\ k \in gone
          \/ want # {} /\ ~in /\ \A i \in DOMAIN msgs : msgs[i].kind # "snapshot"

CatchingUp ==
    /\ IsFiniteSet(held)
    /\ ~failed /\ ~refused =>
          \A k \in Keys \ Contested :
              Fits(sent, k, Want(origin, k), At(replica, k), missed, joined)

LEMMA SaysWhat ==
    /\ \A e, k : Says(PutMessage(e), k) =
           IF SchemaOf(e.type) = SchemaOf(Type) /\ e.key = k THEN {{Copy(e)}} ELSE {}
    /\ \A schema, key, k : Says(DeleteMessage(schema, key), k) =
           IF schema = SchemaOf(Type) /\ key = k THEN {{}} ELSE {}
    /\ \A m, k : m.kind = "answer" => Says(m, k) = {}
<1>1. ASSUME NEW e, NEW k
      PROVE  Says(PutMessage(e), k) =
                 IF SchemaOf(e.type) = SchemaOf(Type) /\ e.key = k THEN {{Copy(e)}} ELSE {}
    <2> DEFINE m == PutMessage(e)
               d == Record(e)
    <2>1. /\ m.kind = "put" /\ m.document = d
          /\ d.schema = SchemaOf(e.type) /\ d.key = e.key /\ Copy(d) = Copy(e)
        BY DEF PutMessage, Record, Copy
    <2> HIDE DEF m, d
    <2>2. Says(m, k) = {{Copy(x)} : x \in {y \in {d} : y.schema = SchemaOf(Type) /\ y.key = k}}
        BY <2>1 DEF Says, DocumentsOf
    <2>3. QED
        BY <2>1, <2>2 DEF m
<1>2. ASSUME NEW schema, NEW key, NEW k
      PROVE  Says(DeleteMessage(schema, key), k) =
                 IF schema = SchemaOf(Type) /\ key = k THEN {{}} ELSE {}
    <2> DEFINE m == DeleteMessage(schema, key)
    <2>1. m.kind = "delete" /\ m.schema = schema /\ m.key = key
        BY DEF DeleteMessage
    <2> HIDE DEF m
    <2>2. Says(m, k) = {x \in {{}} : schema = SchemaOf(Type) /\ key = k}
        BY <2>1 DEF Says, DocumentsOf
    <2>3. QED
        BY <2>2 DEF m
<1>3. ASSUME NEW m, NEW k, m.kind = "answer"
      PROVE  Says(m, k) = {}
    BY <1>3 DEF Says, DocumentsOf
<1>4. QED
    BY <1>1, <1>2, <1>3

\* One more message: it is silent and leaves what is wanted, or says it.
LEMMA OneMoreFits ==
    ASSUME NEW M, NEW msgs \in Seq(M), NEW m \in M, NEW k, NEW want, NEW wants, NEW have,
           NEW gone, NEW in, Fits(msgs, k, want, have, gone, in),
           \/ Says(m, k) = {} /\ wants = want /\ (m.kind # "snapshot" \/ want = {})
           \/ Says(m, k) = {wants}
    PROVE  Fits(Append(msgs, m), k, wants, have, gone, in)
<1> DEFINE more == Append(msgs, m)
           n    == Len(msgs)
<1>1. /\ n \in Nat /\ DOMAIN msgs = 1 .. n /\ DOMAIN more = 1 .. n + 1
      /\ more[n + 1] = m /\ \A i \in 1 .. n : more[i] = msgs[i]
    BY AppendProperties
<1>2. n + 1 \in 1 .. n + 1 /\ \A i \in 1 .. n : i \in 1 .. n + 1 /\ n + 1 > i
    BY <1>1
<1>3. \A i \in 1 .. n + 1 : i \in 1 .. n \/ i = n + 1
    BY <1>1
<1> HIDE DEF more, n
<1>4. ASSUME NEW i \in DOMAIN more, Says(more[i], k) # {},
             \A j \in DOMAIN more : j > i => Says(more[j], k) = {}
      PROVE  Says(more[i], k) = {wants}
    <2>1. CASE i = n + 1
        BY <1>1, <1>4, <2>1
    <2>2. CASE i \in 1 .. n
        <3>1. Says(m, k) = {} /\ wants = want
            BY <1>1, <1>2, <1>4, <2>2
        <3>2. \A j \in DOMAIN msgs : j > i => Says(msgs[j], k) = {}
            BY <1>1, <1>2, <1>4
        <3>3. Says(msgs[i], k) # {} /\ i \in DOMAIN msgs
            BY <1>1, <1>4, <2>2
        <3>4. Says(msgs[i], k) = {want}
            BY <3>2, <3>3 DEF Fits
        <3>5. QED
            BY <1>1, <2>2, <3>1, <3>4
    <2>3. QED
        BY <1>1, <1>3, <2>1, <2>2
<1>5. ASSUME \A i \in DOMAIN more : Says(more[i], k) = {}
      PROVE  \/ have = wants
             \/ wants = {} /\ k \in gone
             \/ wants # {} /\ ~in /\ \A i \in DOMAIN more : more[i].kind # "snapshot"
    <2>1. Says(m, k) = {}
        BY <1>1, <1>2, <1>5
    <2>2. wants = want /\ (m.kind # "snapshot" \/ want = {})
        BY <2>1
    <2>3. \A i \in DOMAIN msgs : Says(msgs[i], k) = {}
        BY <1>1, <1>2, <1>5
    <2>4. \/ have = want
          \/ want = {} /\ k \in gone
          \/ want # {} /\ ~in /\ \A i \in DOMAIN msgs : msgs[i].kind # "snapshot"
        BY <2>3 DEF Fits
    <2>5. CASE want # {} /\ ~in /\ \A i \in DOMAIN msgs : msgs[i].kind # "snapshot"
        <3>1. \A i \in DOMAIN more : more[i].kind # "snapshot"
            BY <1>1, <1>3, <2>2, <2>5
        <3>2. QED
            BY <2>2, <2>5, <3>1
    <2>6. QED
        BY <2>2, <2>4, <2>5
<1>6. Fits(more, k, wants, have, gone, in)
    BY <1>4, <1>5 DEF Fits
<1>7. QED
    BY <1>6 DEF more

\* One message less: the follower has what it says, or what it had if it is
\* silent.
LEMMA OneLessFits ==
    ASSUME NEW M, NEW msgs \in Seq(M), msgs # <<>>, NEW k, NEW want, NEW have, NEW has,
           NEW gone, NEW goes, NEW in, NEW joins, Fits(msgs, k, want, have, gone, in),
           \A w : Says(Head(msgs), k) = {w} => has = w,
           Says(Head(msgs), k) = {} =>
               /\ has = have
               /\ k \in gone => k \in goes
               /\ ~in /\ Head(msgs).kind # "snapshot" => ~joins
    PROVE  Fits(Tail(msgs), k, want, has, goes, joins)
<1> DEFINE less == Tail(msgs)
           n    == Len(less)
<1>1. /\ less \in Seq(M) /\ Len(less) = Len(msgs) - 1 /\ Len(msgs) \in Nat
      /\ \A i \in 1 .. Len(less) : less[i] = msgs[i + 1]
    BY HeadTailProperties
<1>2. Head(msgs) = msgs[1]
    OBVIOUS
<1>3. n \in Nat /\ DOMAIN less = 1 .. n /\ DOMAIN msgs = 1 .. n + 1
    <2> HIDE DEF less
    <2>1. QED
        BY <1>1
<1>4. \A i \in 1 .. n : less[i] = msgs[i + 1]
    BY <1>1
<1> HIDE DEF less, n
<1>5. 1 \in 1 .. n + 1 /\ \A i \in 1 .. n : i + 1 \in 1 .. n + 1 /\ i \in Nat
    BY <1>3
<1>6. \A j \in 1 .. n + 1 : j = 1 \/ (j - 1 \in 1 .. n /\ (j - 1) + 1 = j)
    BY <1>3
<1>7. ASSUME NEW i \in DOMAIN less, Says(less[i], k) # {},
             \A j \in DOMAIN less : j > i => Says(less[j], k) = {}
      PROVE  Says(less[i], k) = {want}
    <2>1. i \in 1 .. n /\ i + 1 \in DOMAIN msgs /\ less[i] = msgs[i + 1]
        BY <1>3, <1>4, <1>5
    <2>2. ASSUME NEW j \in DOMAIN msgs, j > i + 1
          PROVE  Says(msgs[j], k) = {}
        <3>1. j - 1 \in 1 .. n /\ j - 1 > i /\ (j - 1) + 1 = j
            BY <1>3, <2>1, <2>2
        <3>2. Says(less[j - 1], k) = {} /\ less[j - 1] = msgs[j]
            BY <1>3, <1>4, <1>7, <3>1
        <3>3. QED
            BY <3>2
    <2>3. QED
        BY <1>7, <2>1, <2>2 DEF Fits
<1>8. ASSUME \A i \in DOMAIN less : Says(less[i], k) = {}
      PROVE  \/ has = want
             \/ want = {} /\ k \in goes
             \/ want # {} /\ ~joins /\ \A i \in DOMAIN less : less[i].kind # "snapshot"
    <2>1. ASSUME NEW j \in DOMAIN msgs, j # 1
          PROVE  Says(msgs[j], k) = {}
        <3>1. j - 1 \in 1 .. n /\ (j - 1) + 1 = j
            BY <1>3, <1>6, <2>1
        <3>2. Says(less[j - 1], k) = {} /\ less[j - 1] = msgs[j]
            BY <1>3, <1>4, <1>8, <3>1
        <3>3. QED
            BY <3>2
    <2>2. CASE Says(Head(msgs), k) = {}
        <3>1. \A j \in DOMAIN msgs : Says(msgs[j], k) = {}
            BY <1>2, <2>1, <2>2
        <3>2. \/ have = want
              \/ want = {} /\ k \in gone
              \/ want # {} /\ ~in /\ \A i \in DOMAIN msgs : msgs[i].kind # "snapshot"
            BY <3>1 DEF Fits
        <3>3. CASE want # {} /\ ~in /\ \A i \in DOMAIN msgs : msgs[i].kind # "snapshot"
            <4>1. Head(msgs).kind # "snapshot" /\ \A i \in DOMAIN less : less[i].kind # "snapshot"
                BY <1>2, <1>3, <1>4, <1>5, <3>3
            <4>2. QED
                BY <2>2, <3>3, <4>1
        <3>4. QED
            BY <2>2, <3>2, <3>3
    <2>3. CASE Says(Head(msgs), k) # {}
        <3>1. 1 \in DOMAIN msgs /\ \A j \in DOMAIN msgs : j > 1 => Says(msgs[j], k) = {}
            BY <1>3, <1>5, <2>1
        <3>2. Says(Head(msgs), k) = {want}
            BY <1>2, <2>3, <3>1 DEF Fits
        <3>3. QED
            BY <3>2
    <2>4. QED
        BY <2>2, <2>3
<1>9. Fits(less, k, want, has, goes, joins)
    BY <1>7, <1>8 DEF Fits
<1>10. QED
    BY <1>9 DEF less

-----------------------------------------------------------------------------
(* What the origin's documents are to the follower.                        *)

LEMMA WantSeen ==
    ASSUME NEW cache, cache \subseteq Envelopes, NEW k
    PROVE  At(Seen(cache), k) = Want(cache, k)
<1>1. ASSUME NEW x \in Envelopes
      PROVE  [x EXCEPT !.type = Type] = Copy(x)
    BY DEF Envelopes, Copy
<1>2. \A x \in cache : [x EXCEPT !.type = Type] = Copy(x) /\ Copy(x).key = x.key
    BY <1>1 DEF Copy
<1>3. At(Seen(cache), k) \subseteq Want(cache, k)
    BY <1>2 DEF At, Seen, Want, Mine
<1>4. Want(cache, k) \subseteq At(Seen(cache), k)
    BY <1>2 DEF At, Seen, Want, Mine
<1>5. QED
    BY <1>3, <1>4

\* Contested, of any history of the origin.
ContestedIn(h) ==
    {e.key : e \in {x \in Seen(h) : Cardinality(
        {y.type : y \in {z \in h : z.key = x.key /\ Seen({z}) # {}}}) > 1}}

TypesOf(h, k) == {y.type : y \in {z \in h : z.key = k /\ Seen({z}) # {}}}

LEMMA TypesOfFinite ==
    ASSUME NEW h, IsFiniteSet(h), NEW k
    PROVE  IsFiniteSet(TypesOf(h, k))
<1> DEFINE Z == {z \in h : z.key = k /\ Seen({z}) # {}}
           f == [y \in Z |-> y.type]
<1>1. IsFiniteSet(Z)
    BY FS_Subset
<1>2. f \in Surjection(Z, TypesOf(h, k))
    BY DEF Surjection, TypesOf
<1> HIDE DEF f, Z
<1>3. QED
    BY <1>1, <1>2, FS_Surjection

LEMMA ContestedGrows ==
    ASSUME NEW g, NEW h, g \subseteq h, IsFiniteSet(h)
    PROVE  ContestedIn(g) \subseteq ContestedIn(h)
<1>1. SUFFICES ASSUME NEW x \in Seen(g), Cardinality(TypesOf(g, x.key)) > 1
               PROVE  x.key \in ContestedIn(h)
    BY DEF ContestedIn, TypesOf
<1>2. x \in Seen(h)
    BY PublishedMonotone
<1>3. TypesOf(g, x.key) \subseteq TypesOf(h, x.key)
    BY DEF TypesOf
<1>4. IsFiniteSet(TypesOf(h, x.key))
    BY TypesOfFinite
<1>5. /\ Cardinality(TypesOf(g, x.key)) <= Cardinality(TypesOf(h, x.key))
      /\ Cardinality(TypesOf(h, x.key)) \in Nat /\ Cardinality(TypesOf(g, x.key)) \in Nat
    BY <1>3, <1>4, FS_Subset, FS_CardinalityType
<1>6. Cardinality(TypesOf(h, x.key)) > 1
    BY <1>1, <1>5
<1>7. QED
    BY <1>2, <1>6 DEF ContestedIn, TypesOf

LEMMA PairIsTwo ==
    ASSUME NEW T, IsFiniteSet(T), NEW a \in T, NEW b \in T, a # b
    PROVE  Cardinality(T) > 1
<1>1. IsFiniteSet({a}) /\ Cardinality({a}) = 1
    BY FS_Singleton
<1>2. IsFiniteSet({a} \cup {b}) /\ Cardinality({a} \cup {b}) = 2
    BY <1>1, FS_AddElement
<1>3. {a} \cup {b} \in SUBSET T
    OBVIOUS
<1>4. Cardinality({a} \cup {b}) <= Cardinality(T) /\ Cardinality(T) \in Nat
    BY <1>3, FS_Subset, FS_CardinalityType
<1>5. QED
    BY <1>2, <1>4

\* Documents of a key that is not contested are of one type.
LEMMA OneType ==
    ASSUME NEW h, h \subseteq Envelopes, IsFiniteSet(h), NEW k, k \notin ContestedIn(h),
           NEW x \in Mine(h, k), NEW y \in Mine(h, k)
    PROVE  x.type = y.type
<1>1. SUFFICES ASSUME x.type # y.type PROVE FALSE
    OBVIOUS
<1> DEFINE c == [x EXCEPT !.type = Type]
<1>2. x \in Envelopes /\ x \in h /\ y \in h /\ x.key = k /\ y.key = k
    BY DEF Mine
<1>3. c.key = k
    BY <1>2 DEF Envelopes
<1>4. c \in Seen(h) /\ Seen({x}) # {} /\ Seen({y}) # {}
    BY DEF Seen, Mine
<1> HIDE DEF c
<1>5. x.type \in TypesOf(h, k) /\ y.type \in TypesOf(h, k)
    BY <1>2, <1>4 DEF TypesOf
<1>6. Cardinality(TypesOf(h, k)) > 1
    BY <1>1, <1>5, TypesOfFinite, PairIsTwo
<1>7. QED
    BY <1>3, <1>4, <1>6 DEF ContestedIn, TypesOf

\* A put makes its document the one that is wanted under its key, if it is one
\* of the follower's, and leaves what is wanted otherwise.
LEMMA WantPut ==
    ASSUME NEW cache, NEW e, NEW k, NEW h, h \subseteq Envelopes, IsFiniteSet(h),
           Stored(cache, e) \subseteq h, cache \subseteq h, k \notin ContestedIn(h)
    PROVE  Want(Stored(cache, e), k) =
               IF Registered(e.type) /\ SchemaOf(e.type) = SchemaOf(Type) /\ e.key = k
               THEN {Copy(e)} ELSE Want(cache, k)
<1> DEFINE new == Stored(cache, e)
<1>1. e \in new /\ \A x \in new : x = e \/ (x \in cache /\ ~(x.type = e.type /\ x.key = e.key))
    BY DEF Stored, Slot
<1>2. \A x \in cache : x \in new \/ (x.type = e.type /\ x.key = e.key)
    BY DEF Stored, Slot
<1> HIDE DEF new
<1>3. CASE Registered(e.type) /\ SchemaOf(e.type) = SchemaOf(Type) /\ e.key = k
    <2>1. e \in Mine(new, k) /\ e \in Mine(h, k)
        BY <1>1, <1>3 DEF Mine, new
    <2>2. ASSUME NEW x \in Mine(new, k)
          PROVE  x = e
        <3>1. x \in Mine(h, k) /\ x \in new /\ x.key = e.key
            BY <1>3, <2>2 DEF Mine, new
        <3>2. x.type = e.type
            BY <2>1, <3>1, OneType
        <3>3. QED
            BY <1>1, <3>1, <3>2
    <2>3. Mine(new, k) = {e}
        BY <2>1, <2>2
    <2>4. Want(new, k) = {Copy(e)}
        BY <2>3 DEF Want
    <2>5. QED
        BY <1>3, <2>4 DEF new
<1>4. CASE ~(Registered(e.type) /\ SchemaOf(e.type) = SchemaOf(Type) /\ e.key = k)
    <2>1. Mine(new, k) \subseteq Mine(cache, k)
        BY <1>1, <1>4 DEF Mine
    <2>2. Mine(cache, k) \subseteq Mine(new, k)
        BY <1>2, <1>4 DEF Mine
    <2>3. Mine(new, k) = Mine(cache, k)
        BY <2>1, <2>2
    <2>4. Want(new, k) = Want(cache, k)
        BY <2>3 DEF Want
    <2>5. QED
        BY <1>4, <2>4 DEF new
<1>5. QED
    BY <1>3, <1>4

LEMMA WantDelete ==
    ASSUME NEW cache, NEW e \in cache, NEW k, NEW h, h \subseteq Envelopes, IsFiniteSet(h),
           cache \subseteq h, k \notin ContestedIn(h), Registered(e.type),
           \A x, y \in cache : x.type = y.type /\ x.key = y.key => x = y
    PROVE  Want(cache \ {e}, k) =
               IF SchemaOf(e.type) = SchemaOf(Type) /\ e.key = k THEN {} ELSE Want(cache, k)
<1>1. CASE SchemaOf(e.type) = SchemaOf(Type) /\ e.key = k
    <2>1. e \in Mine(h, k)
        BY <1>1 DEF Mine
    <2>2. ASSUME NEW x \in Mine(cache \ {e}, k)
          PROVE  FALSE
        <3>1. x \in Mine(h, k) /\ x \in cache /\ x # e /\ x.key = e.key
            BY <1>1, <2>2 DEF Mine
        <3>2. x.type = e.type
            BY <2>1, <3>1, OneType
        <3>3. QED
            BY <3>1, <3>2
    <2>3. Want(cache \ {e}, k) = {}
        BY <2>2 DEF Want
    <2>4. QED
        BY <1>1, <2>3
<1>2. CASE ~(SchemaOf(e.type) = SchemaOf(Type) /\ e.key = k)
    <2>1. Mine(cache \ {e}, k) = Mine(cache, k)
        BY <1>2 DEF Mine
    <2>2. QED
        BY <1>2, <2>1 DEF Want
<1>3. QED
    BY <1>1, <1>2

\* A snapshot says of a key what is wanted of it, if anything is.
LEMMA SnapshotSays ==
    ASSUME NEW cache, NEW k \in Keys, NEW h, h \subseteq Envelopes, IsFiniteSet(h),
           IsFiniteSet(cache), cache \subseteq h, k \notin ContestedIn(h),
           \A x, y \in cache : x.type = y.type /\ x.key = y.key => x = y,
           NEW schemas, SchemaOf(Type) \in schemas,
           NEW m \in SnapshotMessages(cache, schemas, Keys)
    PROVE  \/ Says(m, k) = {} /\ Want(cache, k) = {}
           \/ Says(m, k) = {Want(cache, k)}
<1> DEFINE told    == {x \in cache : SchemaOf(x.type) \in schemas /\ x.key \in Keys}
           records == {Record(e) : e \in told}
<1>1. \A e \in cache : Registered(e.type)
    BY DEF SnapshotMessages
<1>2. PICK documents \in SetToSeqs(records) : m = [kind |-> "snapshot", documents |-> documents]
    BY <1>1 DEF SnapshotMessages
<1>3. m.kind = "snapshot" /\ m.documents = documents
    BY <1>2
<1>4. ToSet(documents) = records
    <2>1. IsFiniteSet(records)
        <3> DEFINE f == [e \in told |-> Record(e)]
        <3>1. IsFiniteSet(told)
            BY FS_Subset
        <3>2. f \in Surjection(told, records)
            BY DEF Surjection
        <3> HIDE DEF f, told, records
        <3>3. QED
            BY <3>1, <3>2, FS_Surjection
    <2> HIDE DEF records
    <2> DEFINE n == Cardinality(records)
    <2>2. n \in Nat
        BY <2>1, FS_CardinalityType
    <2>3. documents \in [1 .. n -> records] /\ IsInjective(documents)
        <3>1. /\ documents \in [1 .. n -> records]
              /\ \A i, j \in 1 .. n : i # j => documents[i] # documents[j]
            BY DEF SetToSeqs
        <3>2. DOMAIN documents = 1 .. n
            BY <3>1
        <3>3. QED
            BY <3>1, <3>2 DEF IsInjective
    <2>4. documents \in Injection(1 .. n, records)
        BY <2>3 DEF Injection
    <2>5. Cardinality(1 .. n) = n
        BY <2>2, FS_Interval
    <2> HIDE DEF n
    <2>6. documents \in Surjection(1 .. n, records)
        BY <2>1, <2>4, <2>5, FS_Injection DEF n
    <2>7. QED
        BY <2>3, <2>6 DEF ToSet, Surjection
<1>5. {x \in records : x.schema = SchemaOf(Type) /\ x.key = k} = {Record(x) : x \in Mine(cache, k)}
    <2>1. \A x : Record(x).schema = SchemaOf(x.type) /\ Record(x).key = x.key
        BY DEF Record
    <2>2. \A x \in told : x \in cache /\ Registered(x.type)
        BY <1>1
    <2>3. \A x \in Mine(cache, k) : /\ x \in told /\ SchemaOf(x.type) = SchemaOf(Type)
                                    /\ x.key = k
        BY DEF Mine
    <2> HIDE DEF told
    <2>4. \A x \in told : SchemaOf(x.type) = SchemaOf(Type) /\ x.key = k => x \in Mine(cache, k)
        BY <2>2 DEF Mine
    <2>5. QED
        BY <2>1, <2>3, <2>4
<1>6. \A x : Copy(Record(x)) = Copy(x)
    BY DEF Copy, Record
<1> HIDE DEF records, told
<1>7. Says(m, k) = {{Copy(x)} : x \in Mine(cache, k)}
    <2>1. DocumentsOf(m) = records
        BY <1>3, <1>4 DEF DocumentsOf
    <2>2. Says(m, k) = {{Copy(d)} : d \in {Record(x) : x \in Mine(cache, k)}}
        BY <1>3, <1>5, <2>1 DEF Says
    <2>3. QED
        BY <1>6, <2>2
<1>8. CASE Mine(cache, k) = {}
    BY <1>7, <1>8 DEF Want
<1>9. CASE Mine(cache, k) # {}
    <2>1. PICK e \in Mine(cache, k) : TRUE
        BY <1>9
    <2>2. ASSUME NEW x \in Mine(cache, k)
          PROVE  x = e
        <3>1. x \in Mine(h, k) /\ e \in Mine(h, k) /\ x \in cache /\ e \in cache /\ x.key = e.key
            BY <2>1, <2>2 DEF Mine
        <3>2. QED
            BY <3>1, OneType
    <2>3. Mine(cache, k) = {e}
        BY <2>1, <2>2
    <2>4. Want(cache, k) = {Copy(e)} /\ Says(m, k) = {{Copy(e)}}
        BY <1>7, <2>3 DEF Want
    <2>5. QED
        BY <2>4
<1>10. QED
    BY <1>8, <1>9

-----------------------------------------------------------------------------
(* What the follower has of a key after a message.                         *)

LEMMA StoredAt ==
    ASSUME NEW h, NEW cache \in SUBSET Copies(h), NEW d, NEW k
    PROVE  At(Stored(cache, Copy(d)), k) = IF d.key = k THEN {Copy(d)} ELSE At(cache, k)
<1>1. Copy(d).type = Type /\ Copy(d).key = d.key /\ \A x \in cache : x.type = Type
    BY DEF Copy, Copies
<1>2. Stored(cache, Copy(d)) = {x \in cache : x.key # d.key} \cup {Copy(d)}
    BY <1>1 DEF Stored, Slot
<1>3. QED
    BY <1>1, <1>2 DEF At

LEMMA PutSaid ==
    ASSUME NEW h, NEW cache \in SUBSET Copies(h), NEW d, NEW k,
           d.schema = SchemaOf(Type) => ApplyPut(cache, Type, d).ok
    PROVE  At(ApplyPut(cache, Type, d).cache, k) =
               IF d.schema = SchemaOf(Type) /\ d.key = k THEN {Copy(d)} ELSE At(cache, k)
<1>1. CASE d.schema = SchemaOf(Type)
    <2>1. ApplyPut(cache, Type, d) = Ok(Stored(cache, Copy(d)))
        BY <1>1 DEF ApplyPut, Ok, Err, Copy
    <2>2. ApplyPut(cache, Type, d).cache = Stored(cache, Copy(d))
        BY <2>1 DEF Ok
    <2>3. QED
        BY <1>1, <2>2, StoredAt
<1>2. CASE d.schema # SchemaOf(Type)
    BY <1>2 DEF ApplyPut, Err
<1>3. QED
    BY <1>1, <1>2

LEMMA DeleteSaid ==
    ASSUME NEW h, NEW cache \in SUBSET Copies(h), NEW m, NEW k
    PROVE  At(ApplyDelete(cache, Type, m).cache, k) =
               IF m.schema = SchemaOf(Type) /\ m.key = k THEN {} ELSE At(cache, k)
<1>1. \A x \in cache : x.type = Type
    BY DEF Copies
<1>2. CASE m.schema = SchemaOf(Type)
    <2>1. ApplyDelete(cache, Type, m).cache = {x \in cache : x.key # m.key}
        BY <1>1, <1>2, ReplicationAssumption DEF ApplyDelete, Ok, Slot
    <2>2. QED
        BY <1>2, <2>1 DEF At
<1>3. CASE m.schema # SchemaOf(Type)
    BY <1>3 DEF ApplyDelete, Err
<1>4. QED
    BY <1>2, <1>3

\* Every document of a snapshot under the key tells the follower to have w, and
\* a document of it is under the key.
AllTell(documents, k, w) ==
    \A i \in 1 .. Len(documents) :
        documents[i].schema = SchemaOf(Type) /\ documents[i].key = k => {Copy(documents[i])} = w
SomeTells(documents, k) ==
    \E i \in 1 .. Len(documents) : documents[i].schema = SchemaOf(Type) /\ documents[i].key = k

\* A snapshot none of whose documents is refused.
LEMMA SnapshotSaid ==
    ASSUME NEW h, h \subseteq Documents, NEW cache \in SUBSET Copies(h),
           NEW documents \in Seq(RecordsOf(h)), NEW k, NEW w,
           AllTell(documents, k, w), ApplySnapshot(cache, Type, documents).ok
    PROVE  At(ApplySnapshot(cache, Type, documents).cache, k) =
               IF SomeTells(documents, k) THEN w ELSE At(cache, k)
<1> DEFINE S == [ok : BOOLEAN, cache : SUBSET Copies(h)]
           N == Len(documents)
           Speaks(i) == documents[i].schema = SchemaOf(Type) /\ documents[i].key = k
<1>1. N \in Nat /\ Ok(cache) \in S /\ Ok(cache).cache = cache
    BY DEF Ok
<1>2. ASSUME NEW r \in S, NEW i \in 1 .. N
      PROVE  AppliedNext(r, Type, documents[i]) \in S
    <2>1. r.cache \in SUBSET Copies(h) /\ documents[i] \in RecordsOf(h)
        OBVIOUS
    <2>2. ApplyPut(r.cache, Type, documents[i]) \in S
        BY <2>1, PutKeepsCopies
    <2> HIDE DEF S
    <2>3. QED
        BY <2>2 DEF AppliedNext
<1>3. PICK T : /\ AppliedInTurn(T, cache, Type, documents)
               /\ ApplySnapshot(cache, Type, documents) = T[N]
    <2> HIDE DEF S
    <2>1. QED
        BY <1>1, <1>2, SnapshotSteps
<1>4. T[0] = Ok(cache) /\ \A n \in 1 .. N : T[n] = AppliedNext(T[n - 1], Type, documents[n])
    BY <1>3 DEF AppliedInTurn
<1> HIDE DEF S
<1> DEFINE After(n) == IF \E i \in 1 .. n : Speaks(i) THEN w ELSE At(cache, k)
           P == {n \in Nat : n <= N => T[n] \in S /\ (T[n].ok => At(T[n].cache, k) = After(n))}
<1>5. 0 \in P
    <2>1. ~\E i \in 1 .. 0 : Speaks(i)
        OBVIOUS
    <2>2. At(T[0].cache, k) = After(0)
        BY <1>1, <1>4, <2>1
    <2>3. QED
        BY <1>1, <1>4, <2>2
<1>6. ASSUME NEW n \in Nat, n \in P PROVE n + 1 \in P
    <2>1. SUFFICES ASSUME n + 1 <= N
                   PROVE  /\ T[n + 1] \in S
                          /\ T[n + 1].ok => At(T[n + 1].cache, k) = After(n + 1)
        OBVIOUS
    <2>2. /\ n + 1 \in 1 .. N /\ (n + 1) - 1 = n /\ T[n] \in S
          /\ T[n].ok => At(T[n].cache, k) = After(n)
        BY <1>1, <1>6, <2>1
    <2> DEFINE d == documents[n + 1]
               r == T[n]
    <2>3. T[n + 1] = AppliedNext(r, Type, d)
        BY <1>4, <2>2
    <2>4. T[n + 1] \in S
        BY <1>2, <2>2, <2>3
    <2>5. 1 .. n + 1 = 1 .. n \cup {n + 1}
        BY <2>2
    <2>6. After(n + 1) = IF Speaks(n + 1) THEN w ELSE After(n)
        <3>1. (\E i \in 1 .. n + 1 : Speaks(i)) <=> (\E i \in 1 .. n : Speaks(i)) \/ Speaks(n + 1)
            BY <2>5
        <3>2. CASE Speaks(n + 1)
            BY <3>1, <3>2
        <3>3. CASE ~Speaks(n + 1)
            BY <3>1, <3>3
        <3>4. QED
            BY <3>2, <3>3
    <2>7. Speaks(n + 1) => {Copy(d)} = w
        BY <2>2 DEF AllTell
    <2>8. Speaks(n + 1) <=> d.schema = SchemaOf(Type) /\ d.key = k
        OBVIOUS
    <2> HIDE DEF d, r, Speaks, After
    <2>9. ASSUME T[n + 1].ok
          PROVE  At(T[n + 1].cache, k) = After(n + 1)
        <3>1. r.ok /\ r.cache \in SUBSET Copies(h) /\ At(r.cache, k) = After(n)
            <4>1. r.ok
                BY <2>3, <2>9 DEF AppliedNext
            <4>2. QED
                BY <2>2, <4>1 DEF r, S
        <3>2. CASE d.schema = SchemaOf(Type)
            <4>1. T[n + 1] = ApplyPut(r.cache, Type, d)
                BY <2>3, <3>1, <3>2 DEF AppliedNext
            <4>2. ApplyPut(r.cache, Type, d).ok
                BY <2>9, <4>1
            <4>3. At(ApplyPut(r.cache, Type, d).cache, k) =
                      IF d.key = k THEN {Copy(d)} ELSE At(r.cache, k)
                BY <3>1, <3>2, <4>2, PutSaid
            <4>4. At(T[n + 1].cache, k) = IF d.key = k THEN {Copy(d)} ELSE At(r.cache, k)
                BY ONLY <4>1, <4>3
            <4>5. QED
                BY <2>6, <2>7, <2>8, <3>1, <3>2, <4>4
        <3>3. CASE d.schema # SchemaOf(Type)
            <4>1. T[n + 1] = r
                BY <2>3, <3>3 DEF AppliedNext
            <4>2. QED
                BY <2>6, <2>8, <3>1, <3>3, <4>1
        <3>4. QED
            BY <3>2, <3>3
    <2>10. QED
        BY <2>4, <2>9
<1>7. \A n \in Nat : n \in P
    <2> HIDE DEF P
    <2>1. QED
        BY <1>5, <1>6, Induction
<1>8. T[N].ok => At(T[N].cache, k) = After(N)
    BY <1>1, <1>7
<1>9. After(N) = IF SomeTells(documents, k) THEN w ELSE At(cache, k)
    BY DEF SomeTells
<1>10. QED
    BY <1>3, <1>8, <1>9

\* The follower has of a key what the message says, or what it had.
LEMMA HandleSays ==
    ASSUME ReplicationInv, Handle, ~refused', NEW k
    PROVE  /\ \A w : Says(Head(received), k) = {w} => At(replica', k) = w
           /\ Says(Head(received), k) = {} =>
                 /\ At(replica', k) = At(replica, k)
                 /\ k \in missed => k \in missed'
                 /\ ~joined /\ Head(received).kind # "snapshot" => ~joined'
<1> DEFINE m == Head(received)
<1>1. Handled
    BY DEF Handle
<1>2. m \in Published(held) \cup {Undecodable}
    BY <1>1, HandledKeeps DEF ReplicationInv, Decoded
<1>3. held \subseteq Documents /\ replica \in SUBSET Copies(held)
    BY DEF ReplicationInv
<1>4. CASE m.kind = "put"
    <2> DEFINE d      == m.document
               result == ApplyPut(replica, Type, d)
    <2>1. /\ replica' = result.cache
          /\ refused' = (refused \/ (d.schema = SchemaOf(Type) /\ ~result.ok))
          /\ UNCHANGED <<joined, missed>>
        BY <1>4 DEF Handle
    <2>2. Says(m, k) = {{Copy(x)} : x \in {y \in {d} : y.schema = SchemaOf(Type) /\ y.key = k}}
        BY <1>4 DEF Says, DocumentsOf
    <2> HIDE DEF d, m
    <2>3. d.schema = SchemaOf(Type) => result.ok
        BY <2>1
    <2>4. At(replica', k) =
              IF d.schema = SchemaOf(Type) /\ d.key = k THEN {Copy(d)} ELSE At(replica, k)
        BY <1>3, <2>1, <2>3, PutSaid
    <2>5. CASE d.schema = SchemaOf(Type) /\ d.key = k
        <3>1. Says(m, k) = {{Copy(d)}}
            BY <2>2, <2>5
        <3>2. QED
            BY <2>4, <2>5, <3>1 DEF m
    <2>6. CASE ~(d.schema = SchemaOf(Type) /\ d.key = k)
        <3>1. Says(m, k) = {}
            BY <2>2, <2>6
        <3>2. QED
            BY <2>1, <2>4, <2>6, <3>1 DEF m
    <2>7. QED
        BY <2>5, <2>6
<1>5. CASE m.kind = "delete"
    <2>1. /\ replica' = ApplyDelete(replica, Type, m).cache
          /\ missed' = IF m.schema = SchemaOf(Type) THEN missed \ {m.key} ELSE missed
          /\ UNCHANGED joined
        BY <1>5 DEF Handle
    <2>2. Says(m, k) = {x \in {{}} : m.schema = SchemaOf(Type) /\ m.key = k}
        BY <1>5 DEF Says, DocumentsOf
    <2> HIDE DEF m
    <2>3. At(replica', k) =
              IF m.schema = SchemaOf(Type) /\ m.key = k THEN {} ELSE At(replica, k)
        BY <1>3, <2>1, DeleteSaid
    <2>4. CASE m.schema = SchemaOf(Type) /\ m.key = k
        <3>1. Says(m, k) = {{}}
            BY <2>2, <2>4
        <3>2. QED
            BY <2>3, <2>4, <3>1 DEF m
    <2>5. CASE ~(m.schema = SchemaOf(Type) /\ m.key = k)
        <3>1. Says(m, k) = {}
            BY <2>2, <2>5
        <3>2. k \in missed => k \in missed'
            BY <2>1, <2>5
        <3>3. QED
            BY <2>1, <2>3, <2>5, <3>1, <3>2 DEF m
    <2>6. QED
        BY <2>4, <2>5
<1>6. CASE m.kind = "snapshot"
    <2> DEFINE D      == m.documents
               result == ApplySnapshot(replica, Type, D)
    <2>1. D \in Seq(RecordsOf(held))
        BY <1>2, <1>6 DEF Published, Undecodable
    <2>2. /\ replica' = result.cache /\ UNCHANGED missed
          /\ refused' = (refused \/ ~result.ok)
        BY <1>6 DEF Handle
    <2>3. Says(m, k) = {{Copy(d)} : d \in {x \in ToSet(D) : x.schema = SchemaOf(Type) /\ x.key = k}}
        BY <1>6 DEF Says, DocumentsOf
    <2> HIDE DEF D, m
    <2>4. result.ok /\ DOMAIN D = 1 .. Len(D)
        <3>1. DOMAIN D = 1 .. Len(D)
            BY <2>1
        <3> HIDE DEF result
        <3>2. result.ok
            BY <2>2
        <3>3. QED
            BY <3>1, <3>2
    <2>5. ToSet(D) = {D[i] : i \in 1 .. Len(D)}
        BY <2>4 DEF ToSet
    <2>6. ASSUME NEW w, AllTell(D, k, w)
          PROVE  At(replica', k) = IF SomeTells(D, k) THEN w ELSE At(replica, k)
        <3>1. ApplySnapshot(replica, Type, D).ok /\ replica' = ApplySnapshot(replica, Type, D).cache
            BY <2>2, <2>4
        <3> HIDE DEF result
        <3>2. QED
            BY ONLY <1>3, <2>1, <2>6, <3>1, SnapshotSaid
    <2>7. \A i \in 1 .. Len(D) :
              D[i].schema = SchemaOf(Type) /\ D[i].key = k => {Copy(D[i])} \in Says(m, k)
        BY <2>3, <2>5
    <2>8. ASSUME NEW w, Says(m, k) = {w}
          PROVE  At(replica', k) = w
        <3>1. SomeTells(D, k)
            BY <2>3, <2>5, <2>8 DEF SomeTells
        <3>2. AllTell(D, k, w)
            BY <2>7, <2>8 DEF AllTell
        <3>3. QED
            BY <2>6, <3>1, <3>2
    <2>9. ASSUME Says(m, k) = {}
          PROVE  At(replica', k) = At(replica, k)
        <3>1. ~SomeTells(D, k) /\ AllTell(D, k, {})
            BY <2>7, <2>9 DEF SomeTells, AllTell
        <3>2. QED
            BY <2>6, <3>1
    <2>10. QED
        BY <1>6, <2>2, <2>8, <2>9 DEF m
<1>7. CASE m.kind \in {"answer", "undecodable"}
    <2>1. UNCHANGED <<replica, joined, missed>>
        BY <1>7 DEF Handle
    <2>2. Says(m, k) = {}
        BY <1>7 DEF Says, DocumentsOf
    <2>3. QED
        BY <2>1, <2>2
<1>8. QED
    BY <1>4, <1>5, <1>6, <1>7 DEF Handle

-----------------------------------------------------------------------------
(* The inductive invariant of catching up, step by step.                   *)

LEMMA ContestedNow == Contested = ContestedIn(held) /\ Contested' = ContestedIn(held')
BY DEF Contested, ContestedIn

LEMMA SentTyped ==
    ASSUME InOrderInv, ~failed
    PROVE  sent \in Seq(Messages)
<1>1. PICK more \in Seq(Messages) : sent = received \o more
    BY DEF InOrderInv
<1>2. received \in Seq(Messages)
    BY DEF InOrderInv
<1>3. QED
    BY <1>1, <1>2, ConcatProperties

\* What is published is one more message, unless the call fails.
LEMMA PublishFits ==
    ASSUME InOrderInv, NEW m \in Messages, Publish(m), ~failed', NEW k, NEW want, NEW wants,
           NEW have, NEW gone, NEW in, Fits(sent, k, want, have, gone, in),
           \/ Says(m, k) = {} /\ wants = want /\ (m.kind # "snapshot" \/ want = {})
           \/ Says(m, k) = {wants}
    PROVE  Fits(sent', k, wants, have, gone, in)
<1>1. ~failed /\ sent' = Append(sent, m)
    BY DEF Publish, Send, SendFails
<1>2. sent \in Seq(Messages)
    BY <1>1, SentTyped
<1>3. Fits(Append(sent, m), k, wants, have, gone, in)
    BY <1>2, OneMoreFits
<1>4. QED
    BY <1>1, <1>3

LEMMA PublishFails == ASSUME NEW m, Publish(m), ~failed' PROVE ~failed
BY DEF Publish, Send, SendFails

\* A change of the origin is told, or is none of the follower's.
LEMMA ChangeCatches ==
    ASSUME ReplicationInv, InOrderInv, CatchingUp, NEW cache, Changed(cache), IsFiniteSet(cache),
           NEW m,
           UNCHANGED streamVars \/ (m \in Messages /\ Publish(m)),
           \A k \in Keys \ ContestedIn(held') :
               \/ UNCHANGED streamVars /\ Want(cache, k) = Want(origin, k)
               \/ /\ m \in Messages /\ Publish(m)
                  /\ \/ /\ Says(m, k) = {} /\ Want(cache, k) = Want(origin, k)
                        /\ m.kind # "snapshot"
                     \/ Says(m, k) = {Want(cache, k)}
    PROVE  CatchingUp'
<1>1. /\ origin' = cache /\ held' = held \cup cache
      /\ UNCHANGED <<replica, joined, refused, missed>>
    BY DEF Changed
<1>2. IsFiniteSet(held')
    BY <1>1, FS_Union DEF CatchingUp
<1>3. Contested \subseteq Contested'
    BY <1>1, <1>2, ContestedNow, ContestedGrows
<1>4. ASSUME ~failed', ~refused', NEW k \in Keys \ Contested'
      PROVE  Fits(sent', k, Want(cache, k), At(replica, k), missed, joined)
    <2>1. ~failed /\ ~refused
        BY <1>1, <1>4, PublishFails DEF streamVars
    <2>2. Fits(sent, k, Want(origin, k), At(replica, k), missed, joined)
        BY <1>3, <1>4, <2>1 DEF CatchingUp
    <2>3. k \in Keys \ ContestedIn(held')
        BY <1>4, ContestedNow
    <2>4. CASE UNCHANGED streamVars /\ Want(cache, k) = Want(origin, k)
        BY <2>2, <2>4 DEF streamVars
    <2>5. CASE /\ m \in Messages /\ Publish(m)
               /\ \/ /\ Says(m, k) = {} /\ Want(cache, k) = Want(origin, k)
                     /\ m.kind # "snapshot"
                  \/ Says(m, k) = {Want(cache, k)}
        BY <1>4, <2>2, <2>5, PublishFits
    <2>6. QED
        BY <2>3, <2>4, <2>5
<1>5. QED
    BY <1>1, <1>2, <1>4 DEF CatchingUp

LEMMA PutCatches ==
    ASSUME ReplicationInv, InOrderInv, CatchingUp, Put PROVE CatchingUp'
<1>1. PICK e \in Documents :
          /\ Changed(Stored(origin, e))
          /\ IF Registered(e.type) THEN Publish(PutMessage(e)) ELSE UNCHANGED streamVars
    BY DEF Put
<1> DEFINE cache == Stored(origin, e)
           m     == PutMessage(e)
<1>2. /\ ReplicationInv' /\ held' = held \cup cache /\ origin \subseteq held
    BY <1>1, PutKeeps DEF Changed, ReplicationInv
<1>3. IsFiniteSet(cache)
    BY <1>1, <1>2 DEF ReplicationInv, Changed
<1>4. /\ held' \subseteq Envelopes /\ IsFiniteSet(held')
      /\ cache \subseteq held' /\ origin \subseteq held'
    BY <1>2, <1>3, FS_Union, ReplicationAssumption DEF ReplicationInv, CatchingUp
<1>5. m.kind # "snapshot" /\ (Registered(e.type) => m \in Messages)
    BY DEF PutMessage, Messages, Mentioned
<1>6. ASSUME NEW k \in Keys \ ContestedIn(held')
      PROVE  \/ UNCHANGED streamVars /\ Want(cache, k) = Want(origin, k)
             \/ /\ m \in Messages /\ Publish(m)
                /\ \/ Says(m, k) = {} /\ Want(cache, k) = Want(origin, k) /\ m.kind # "snapshot"
                   \/ Says(m, k) = {Want(cache, k)}
    <2>1. Want(cache, k) =
              IF Registered(e.type) /\ SchemaOf(e.type) = SchemaOf(Type) /\ e.key = k
              THEN {Copy(e)} ELSE Want(origin, k)
        BY <1>4, WantPut
    <2>2. Says(m, k) = IF SchemaOf(e.type) = SchemaOf(Type) /\ e.key = k THEN {{Copy(e)}} ELSE {}
        BY SaysWhat
    <2> HIDE DEF cache, m
    <2>3. CASE Registered(e.type)
        <3>1. m \in Messages /\ Publish(m)
            BY <1>1, <1>5, <2>3 DEF m
        <3>2. CASE SchemaOf(e.type) = SchemaOf(Type) /\ e.key = k
            BY <2>1, <2>2, <2>3, <3>1, <3>2
        <3>3. CASE ~(SchemaOf(e.type) = SchemaOf(Type) /\ e.key = k)
            BY <1>5, <2>1, <2>2, <2>3, <3>1, <3>3
        <3>4. QED
            BY <3>2, <3>3
    <2>4. CASE ~Registered(e.type)
        BY <1>1, <2>1, <2>4
    <2>5. QED
        BY <2>3, <2>4
<1>7. UNCHANGED streamVars \/ (m \in Messages /\ Publish(m))
    BY <1>1, <1>5
<1>8. Changed(cache)
    BY <1>1
<1> HIDE DEF cache, m
<1>9. QED
    BY <1>3, <1>6, <1>7, <1>8, ChangeCatches

LEMMA DeleteCatches ==
    ASSUME ReplicationInv, InOrderInv, CatchingUp, Delete PROVE CatchingUp'
<1>1. PICK e \in origin :
          /\ Registered(e.type)
          /\ Changed(origin \ {e})
          /\ Publish(DeleteMessage(SchemaOf(e.type), e.key))
    BY DEF Delete
<1> DEFINE cache == origin \ {e}
           m     == DeleteMessage(SchemaOf(e.type), e.key)
<1>2. /\ ReplicationInv' /\ held' = held \cup cache /\ origin \subseteq held
    BY <1>1, DeleteKeeps DEF Changed, ReplicationInv
<1>3. IsFiniteSet(cache)
    BY <1>1, <1>2 DEF ReplicationInv, Changed
<1>4. held' \subseteq Envelopes /\ IsFiniteSet(held') /\ origin \subseteq held'
    BY <1>2, <1>3, FS_Union, ReplicationAssumption DEF ReplicationInv, CatchingUp
<1>5. m.kind # "snapshot" /\ m \in Messages
    BY <1>1 DEF DeleteMessage, Messages, Mentioned, ReplicationInv
<1>6. ASSUME NEW k \in Keys \ ContestedIn(held')
      PROVE  \/ Says(m, k) = {} /\ Want(cache, k) = Want(origin, k) /\ m.kind # "snapshot"
             \/ Says(m, k) = {Want(cache, k)}
    <2>1. \A x, y \in origin : x.type = y.type /\ x.key = y.key => x = y
        BY DEF ReplicationInv
    <2>2. Want(cache, k) =
              IF SchemaOf(e.type) = SchemaOf(Type) /\ e.key = k THEN {} ELSE Want(origin, k)
        BY <1>1, <1>4, <2>1, WantDelete
    <2>3. Says(m, k) = IF SchemaOf(e.type) = SchemaOf(Type) /\ e.key = k THEN {{}} ELSE {}
        BY SaysWhat
    <2> HIDE DEF cache, m
    <2>4. QED
        BY <1>5, <2>2, <2>3
<1>7. Changed(cache) /\ Publish(m)
    BY <1>1
<1> HIDE DEF cache, m
<1>8. QED
    BY <1>3, <1>5, <1>6, <1>7, ChangeCatches

\* An answer of the origin leaves what is wanted.
LEMMA ServeCatches ==
    ASSUME ReplicationInv, InOrderInv, CatchingUp, ServeSnapshot \/ ServeQuery PROVE CatchingUp'
<1>1. UNCHANGED <<origin, replica, joined, refused, missed, held>>
    BY DEF ServeSnapshot, ServeQuery, Take
<1>2. /\ origin \subseteq held /\ held \subseteq Envelopes /\ IsFiniteSet(origin)
      /\ IsFiniteSet(held) /\ origin \subseteq Documents
      /\ \A x, y \in origin : x.type = y.type /\ x.key = y.key => x = y
    BY ReplicationAssumption DEF ReplicationInv, CatchingUp
<1>3. UNCHANGED streamVars \/ \E m \in Published(origin) :
          /\ Publish(m)
          /\ \/ m.kind = "answer"
             \/ \E schemas \in {KnownSchemas, {SchemaOf(Type)}} :
                    m \in SnapshotMessages(origin, schemas, Keys)
    <2>1. CASE ServeSnapshot
        <3>1. PICK schemas \in {KnownSchemas, {SchemaOf(Type)}} :
                  \/ \E m \in SnapshotMessages(origin, schemas, Keys) : Publish(m)
                  \/ UNCHANGED streamVars
            BY <2>1 DEF ServeSnapshot
        <3>2. \A m \in SnapshotMessages(origin, schemas, Keys) : m \in Published(origin)
            BY <1>2, SnapshotPublished
        <3>3. QED
            BY <3>1, <3>2
    <2>2. CASE ServeQuery
        <3>1. CASE /\ \A e \in origin : Registered(e.type)
                   /\ Servable(Source(origin), KnownSchemas)
            <4> DEFINE m == Answer(Source(origin), Request(Head(requests)))
            <4>1. Head(requests) \in Queries /\ Publish(m)
                BY <2>2, <3>1 DEF ServeQuery
            <4>2. m \in Published(origin)
                BY <1>2, <3>1, <4>1, AnswerPublished
            <4>3. m.kind = "answer"
                BY DEF Answer
            <4> HIDE DEF m
            <4>4. QED
                BY <4>1, <4>2, <4>3
        <3>2. CASE ~(/\ \A e \in origin : Registered(e.type)
                     /\ Servable(Source(origin), KnownSchemas))
            BY <2>2, <3>2 DEF ServeQuery
        <3>3. QED
            BY <3>1, <3>2
    <2>3. QED
        BY <2>1, <2>2
<1>4. SchemaOf(Type) \in KnownSchemas
    <2>1. SchemaOf(Type) \in SchemasOf(Type)
        BY ReplicationAssumption DEF Registered, SchemaOf
    <2>2. QED
        BY <2>1 DEF SchemasOf, KnownSchemas
<1>5. Contested' = Contested
    BY <1>1, ContestedNow
<1>6. ASSUME ~failed', ~refused', NEW k \in Keys \ Contested
      PROVE  Fits(sent', k, Want(origin, k), At(replica, k), missed, joined)
    <2>1. CASE UNCHANGED streamVars
        BY <1>1, <1>6, <2>1 DEF streamVars, CatchingUp
    <2>2. ASSUME NEW m \in Published(origin), Publish(m),
                 \/ m.kind = "answer"
                 \/ \E schemas \in {KnownSchemas, {SchemaOf(Type)}} :
                        m \in SnapshotMessages(origin, schemas, Keys)
          PROVE  Fits(sent', k, Want(origin, k), At(replica, k), missed, joined)
        <3>1. ~failed /\ ~refused
            BY <1>1, <1>6, <2>2, PublishFails
        <3>2. Fits(sent, k, Want(origin, k), At(replica, k), missed, joined)
            BY <1>6, <3>1 DEF CatchingUp
        <3>3. \/ Says(m, k) = {} /\ (m.kind # "snapshot" \/ Want(origin, k) = {})
              \/ Says(m, k) = {Want(origin, k)}
            <4>1. CASE m.kind = "answer"
                BY <4>1, SaysWhat
            <4>2. ASSUME NEW schemas \in {KnownSchemas, {SchemaOf(Type)}},
                         m \in SnapshotMessages(origin, schemas, Keys)
                  PROVE  \/ Says(m, k) = {} /\ Want(origin, k) = {}
                         \/ Says(m, k) = {Want(origin, k)}
                <5>1. SchemaOf(Type) \in schemas /\ k \in Keys /\ k \notin ContestedIn(held)
                    BY <1>4, <1>6, ContestedNow
                <5>2. QED
                    BY <1>2, <4>2, <5>1, SnapshotSays
            <4>3. QED
                BY <2>2, <4>1, <4>2
        <3>4. m \in Messages
            BY DEF Published
        <3>5. QED
            BY <1>6, <2>2, <3>2, <3>3, <3>4, PublishFits
    <2>3. QED
        BY <1>3, <2>1, <2>2
<1>7. QED
    BY <1>1, <1>2, <1>5, <1>6 DEF CatchingUp

\* The follower takes the first of the messages under way.
LEMMA HandleCatches ==
    ASSUME ReplicationInv, InOrderInv, CatchingUp, Handle PROVE CatchingUp'
<1>1. UNCHANGED <<origin, held>> /\ Handled
    BY DEF Handle
<1>2. Contested' = Contested /\ IsFiniteSet(held')
    BY <1>1, ContestedNow DEF CatchingUp
<1>3. refused => refused'
    BY DEF Handle, ReplicationInv
<1>4. ASSUME ~failed', ~refused', NEW k \in Keys \ Contested
      PROVE  Fits(sent', k, Want(origin, k), At(replica', k), missed', joined')
    <2>1. ~failed /\ ~refused /\ sent' = Tail(sent) /\ received # <<>>
        BY <1>1, <1>3, <1>4 DEF Handled
    <2>2. sent \in Seq(Messages)
        BY <2>1, SentTyped
    <2>3. sent # <<>> /\ Head(sent) = Head(received)
        <3>1. PICK more \in Seq(Messages) : sent = received \o more
            BY <2>1 DEF InOrderInv
        <3>2. received \in Seq(Messages)
            BY <2>1 DEF InOrderInv
        <3>3. Len(received) \in Nat \ {0} /\ Len(more) \in Nat
            BY <2>1, <3>2
        <3>4. Len(sent) = Len(received) + Len(more) /\ sent[1] = received[1]
            BY <3>1, <3>2, <3>3, ConcatProperties
        <3>5. QED
            BY <2>2, <3>2, <3>3, <3>4
    <2>4. Fits(sent, k, Want(origin, k), At(replica, k), missed, joined)
        BY <1>4, <2>1 DEF CatchingUp
    <2>5. /\ \A w : Says(Head(sent), k) = {w} => At(replica', k) = w
          /\ Says(Head(sent), k) = {} =>
                /\ At(replica', k) = At(replica, k)
                /\ k \in missed => k \in missed'
                /\ ~joined /\ Head(sent).kind # "snapshot" => ~joined'
        BY <1>4, <2>3, HandleSays
    <2>6. Fits(Tail(sent), k, Want(origin, k), At(replica', k), missed', joined')
        BY <2>2, <2>3, <2>4, <2>5, OneLessFits
    <2>7. QED
        BY <2>1, <2>6
<1>5. QED
    BY <1>1, <1>2, <1>4 DEF CatchingUp

\* With nothing under way and no snapshot yet it is enough to know what the
\* follower missed.
LEMMA NothingUnderWay ==
    ASSUME NEW k, NEW want, NEW have, NEW gone, NEW in, ~in,
           have # {} /\ want = {} => k \in gone
    PROVE  Fits(<<>>, k, want, have, gone, in)
BY DEF Fits

LEMMA ReconnectCatches ==
    ASSUME ReplicationInv, CatchingUp, Reconnect PROVE CatchingUp'
<1>1. /\ UNCHANGED <<origin, replica, held>> /\ sent' = <<>> /\ joined' = FALSE
      /\ missed' = missed \cup
             {e.key : e \in {x \in replica : \A y \in Seen(origin) : y.key # x.key}}
    BY DEF Reconnect, NewStream
<1>2. origin \subseteq Envelopes
    BY ReplicationAssumption DEF ReplicationInv
<1>3. ASSUME NEW k, At(replica, k) # {}, Want(origin, k) = {}
      PROVE  k \in missed'
    <2>1. At(Seen(origin), k) = {}
        BY <1>2, <1>3, WantSeen
    <2>2. PICK x \in replica : x.key = k
        BY <1>3 DEF At
    <2>3. \A y \in Seen(origin) : y.key # x.key
        BY <2>1, <2>2 DEF At
    <2>4. QED
        BY <1>1, <2>2, <2>3
<1>4. ASSUME NEW k
      PROVE  Fits(sent', k, Want(origin, k), At(replica, k), missed', joined')
    BY <1>1, <1>3, NothingUnderWay
<1>5. QED
    BY <1>1, <1>4 DEF CatchingUp

LEMMA CatchingStep ==
    ASSUME ReplicationInv, InOrderInv, CatchingUp, [Next]_vars PROVE CatchingUp'
<1>1. ASSUME UNCHANGED <<origin, replica, joined, refused, missed, held>>,
             UNCHANGED sent \/ failed', failed => failed'
      PROVE  CatchingUp'
    <2>1. Contested' = Contested
        BY <1>1, ContestedNow
    <2>2. QED
        BY <1>1, <2>1 DEF CatchingUp
<1>2. ASSUME Push \/ Receive \/ ReceiveFails, UNCHANGED programVars
      PROVE  CatchingUp'
    <2>1. (UNCHANGED sent \/ failed') /\ (failed => failed')
        BY <1>2 DEF Push, Receive, ReceiveFails
    <2>2. QED
        BY <1>1, <1>2, <2>1 DEF programVars
<1>3. ASSUME NEW q \in Queries, Ask(q)
      PROVE  CatchingUp'
    BY <1>1, <1>3 DEF Ask, streamVars
<1>4. CASE UNCHANGED vars
    BY <1>1, <1>4 DEF vars, programVars, streamVars
<1>5. QED
    BY <1>2, <1>3, <1>4, PutCatches, DeleteCatches, ServeCatches, HandleCatches, ReconnectCatches
    DEF Next

LEMMA CatchingInit == ASSUME Init PROVE CatchingUp
<1>1. /\ held = {} /\ origin = {} /\ replica = {} /\ sent = <<>> /\ joined = FALSE
    BY DEF Init, InitStream
<1>2. ASSUME NEW k
      PROVE  Fits(<<>>, k, Want(origin, k), At(replica, k), missed, joined)
    <2>1. At(replica, k) = {}
        BY <1>1 DEF At
    <2>2. QED
        BY <1>1, <2>1, NothingUnderWay
<1>3. IsFiniteSet(held)
    BY <1>1, FS_EmptySet
<1>4. QED
    BY <1>1, <1>2, <1>3 DEF CatchingUp

LEMMA CatchingMeans ==
    ASSUME ReplicationInv, InOrderInv, CatchingUp PROVE CaughtUp
<1> DEFINE mine == Seen(origin)
<1>1. SUFFICES ASSUME joined, ~refused, ~failed, wire = <<>>, received = <<>>
               PROVE  /\ \A e \in mine \ replica : e.key \in Contested
                      /\ \A e \in replica \ mine : e.key \in missed \cup Contested
    BY DEF CaughtUp
<1>2. sent = <<>>
    <2>1. Len(received) = Len(sent)
        BY <1>1, InvStreamTyped, InOrderMeans DEF NothingHeldBack
    <2>2. sent \in Seq(Messages) /\ Len(received) = 0
        BY <1>1, SentTyped
    <2>3. QED
        BY <2>1, <2>2, EmptySeq
<1>3. origin \subseteq Envelopes
    BY ReplicationAssumption DEF ReplicationInv
<1>4. ASSUME NEW k \in Keys \ Contested
      PROVE  \/ At(replica, k) = At(mine, k)
             \/ At(mine, k) = {} /\ k \in missed
    <2>1. Fits(<<>>, k, Want(origin, k), At(replica, k), missed, joined)
        BY <1>1, <1>2, <1>4 DEF CatchingUp
    <2>2. At(replica, k) = Want(origin, k) \/ (Want(origin, k) = {} /\ k \in missed)
        BY <1>1, <2>1 DEF Fits
    <2>3. At(mine, k) = Want(origin, k)
        BY <1>3, WantSeen
    <2>4. QED
        BY <2>2, <2>3
<1>5. /\ \A e \in mine : e.key \in Keys
      /\ \A e \in replica : e.key \in Keys
    <2>1. \A e \in mine : e.key \in Keys
        BY <1>3 DEF Seen, Envelopes
    <2>2. \A e \in replica : e.key \in Keys
        BY DEF ReplicationInv, Copies
    <2>3. QED
        BY <2>1, <2>2
<1> HIDE DEF mine
<1>6. ASSUME NEW e \in mine \ replica, e.key \notin Contested
      PROVE  FALSE
    <2>1. e \in At(mine, e.key) /\ e \notin At(replica, e.key)
        BY DEF At
    <2>2. QED
        BY <1>4, <1>5, <1>6, <2>1
<1>7. ASSUME NEW e \in replica \ mine, e.key \notin Contested
      PROVE  e.key \in missed
    <2>1. e \notin At(mine, e.key) /\ e \in At(replica, e.key)
        BY DEF At
    <2>2. QED
        BY <1>4, <1>5, <1>7, <2>1
<1>8. QED
    BY <1>6, <1>7 DEF mine

\* Once a follower has applied a snapshot, and no call has failed and no
\* document was refused on the connection, it has what the origin has as soon
\* as nothing is under way, except keys that went while it was away and keys
\* that two types share.
THEOREM FollowerCatchesUp == Spec => []CaughtUp
<1>1. Init => ReplicationInv /\ InOrderInv /\ CatchingUp
    BY InvInit, InOrderInit, CatchingInit
<1>2. /\ ReplicationInv /\ InOrderInv /\ CatchingUp /\ [Next]_vars
      => ReplicationInv' /\ InOrderInv' /\ CatchingUp'
    BY InvStep, InOrderStep, CatchingStep
<1>3. ReplicationInv /\ InOrderInv /\ CatchingUp => CaughtUp
    BY CatchingMeans
<1>4. QED
    BY <1>1, <1>2, <1>3, PTL DEF Spec
=============================================================================
