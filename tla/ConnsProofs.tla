----------------------------- MODULE ConnsProofs -----------------------------
(***************************************************************************)
(* Proofs about active_connections in Jobs, for every set of jobs and of   *)
(* sockets.  First what list.remove() leaves of a list, by induction along *)
(* the list; then that however clients, endpoints and broadcasts           *)
(* interleave, the list holds exactly the clients it should.               *)
(***************************************************************************)
EXTENDS JobsProofs, NatInduction

\* The elements among the first n, and a list without duplicates.
Prefix(list, n) == {list[i] : i \in 1..n}
Distinct(list) == \A i, k \in DOMAIN list : list[i] = list[k] => i = k

\* The recursive function that Without evaluates, on the first m elements.
Filtered(list, gone, m, f) ==
  f = [n \in 0..m |->
        IF n = 0 THEN <<>>
        ELSE IF list[n] \in gone THEN f[n - 1]
        ELSE Append(f[n - 1], list[n])]

\* There is such a function, so that CHOOSE, which is what a recursive
\* definition stands for, has something to choose.
LEMMA FilteredExists ==
  ASSUME NEW list, NEW gone, NEW m \in Nat
  PROVE  \E f : Filtered(list, gone, m, f)
<1> DEFINE S == {n \in Nat : \E f : Filtered(list, gone, n, f)}
<1>1. 0 \in S
  <2> DEFINE f == [n \in 0..0 |-> <<>>]
  <2>1. Filtered(list, gone, 0, f)
    BY DEF Filtered
  <2> HIDE DEF f
  <2> QED
    BY <2>1
<1>2. ASSUME NEW n \in S PROVE n + 1 \in S
  <2>1. PICK f : Filtered(list, gone, n, f)
    OBVIOUS
  <2> DEFINE last == IF list[n + 1] \in gone THEN f[n]
                     ELSE Append(f[n], list[n + 1])
             g == [k \in 0..(n + 1) |-> IF k = n + 1 THEN last ELSE f[k]]
  <2>2. ASSUME NEW k \in 0..(n + 1)
        PROVE  g[k] = IF k = 0 THEN <<>>
                      ELSE IF list[k] \in gone THEN g[k - 1]
                      ELSE Append(g[k - 1], list[k])
    <3>1. CASE k = n + 1
      <4>1. k # 0 /\ k - 1 = n /\ n \in 0..(n + 1) /\ n # n + 1
        BY <3>1
      <4>2. g[k] = last /\ g[k - 1] = f[n]
        BY <4>1, <3>1
      <4> QED
        BY <4>1, <4>2, <3>1
    <3>2. CASE k # n + 1
      <4>1. k \in 0..n /\ g[k] = f[k]
        BY <3>2
      <4>2. k # 0 => k - 1 \in 0..(n + 1) /\ k - 1 # n + 1
        BY <4>1
      <4>3. k # 0 => g[k - 1] = f[k - 1]
        BY <4>2
      <4>4. f[k] = IF k = 0 THEN <<>>
                   ELSE IF list[k] \in gone THEN f[k - 1]
                   ELSE Append(f[k - 1], list[k])
        <5> HIDE DEF g, last
        <5> QED BY <2>1, <4>1 DEF Filtered
      <4> HIDE DEF g, last
      <4> QED
        BY <4>1, <4>3, <4>4
    <3> QED
      BY <3>1, <3>2
  <2>3. g = [k \in 0..(n + 1) |-> g[k]]
    OBVIOUS
  <2> HIDE DEF g
  <2>4. Filtered(list, gone, n + 1, g)
    BY <2>2, <2>3 DEF Filtered
  <2> QED
    BY <2>4
<1> HIDE DEF S
<1>3. S = Nat
  BY <1>1, <1>2, Induction DEF S
<1> QED
  BY <1>3 DEF S

\* Without(list, gone) is the last value of one.
LEMMA WithoutIsFiltered ==
  ASSUME NEW S, NEW list \in Seq(S), NEW gone
  PROVE  \E f : /\ Filtered(list, gone, Len(list), f)
                /\ Without(list, gone) = f[Len(list)]
<1>0. Len(list) \in Nat
  OBVIOUS
<1>1. \E f : Filtered(list, gone, Len(list), f)
  BY <1>0, FilteredExists
<1> DEFINE f == CHOOSE f : Filtered(list, gone, Len(list), f)
<1>2. Filtered(list, gone, Len(list), f)
  BY <1>1
<1>3. Without(list, gone) = f[Len(list)]
  BY DEF Without, Filtered
<1> QED
  BY <1>2, <1>3

\* What Append does to the type, the elements and the lack of duplicates.
LEMMA AppendFacts ==
  ASSUME NEW S, NEW list \in Seq(S), NEW e \in S
  PROVE  /\ Append(list, e) \in Seq(S)
         /\ Elements(Append(list, e)) = Elements(list) \cup {e}
         /\ Distinct(list) /\ e \notin Elements(list)
              => Distinct(Append(list, e))
<1> DEFINE new == Append(list, e)
<1>1. /\ new \in Seq(S) /\ Len(new) = Len(list) + 1
      /\ \A i \in 1..Len(list) : new[i] = list[i]
      /\ new[Len(list) + 1] = e
      /\ DOMAIN new = 1..(Len(list) + 1) /\ DOMAIN list = 1..Len(list)
      /\ Len(list) \in Nat
  OBVIOUS
<1> HIDE DEF new
<1>2. DOMAIN new = DOMAIN list \cup {Len(list) + 1}
  BY <1>1
<1>3. Elements(new) = Elements(list) \cup {e}
  BY <1>1, <1>2 DEF Elements
<1>4. Distinct(list) /\ e \notin Elements(list) => Distinct(new)
  BY <1>1, <1>2 DEF Distinct, Elements
<1> QED
  BY <1>1, <1>3, <1>4 DEF new

\* The first n elements, filtered: by induction on n.
LEMMA FilteredFacts ==
  ASSUME NEW S, NEW list \in Seq(S), NEW gone, NEW f,
         Filtered(list, gone, Len(list), f), NEW n \in 0..Len(list)
  PROVE  /\ f[n] \in Seq(S)
         /\ Elements(f[n]) = Prefix(list, n) \ gone
         /\ Distinct(list) => Distinct(f[n])
<1> DEFINE Good(k) == /\ f[k] \in Seq(S)
                      /\ Elements(f[k]) = Prefix(list, k) \ gone
                      /\ Distinct(list) => Distinct(f[k])
           T == {k \in Nat : k <= Len(list) => Good(k)}
<1>0. Len(list) \in Nat /\ DOMAIN list = 1..Len(list)
  OBVIOUS
<1>1. 0 \in T
  <2>1. f[0] = <<>>
    BY <1>0 DEF Filtered
  <2>2. DOMAIN <<>> = {} /\ 1..0 = {} /\ <<>> \in Seq(S)
    OBVIOUS
  <2>3. Elements(<<>>) = {} /\ Prefix(list, 0) = {} /\ Distinct(<<>>)
    BY <2>2 DEF Elements, Prefix, Distinct
  <2> QED
    BY <2>1, <2>2, <2>3
<1>2. ASSUME NEW k \in T PROVE k + 1 \in T
  <2> SUFFICES ASSUME k + 1 <= Len(list) PROVE Good(k + 1)
    OBVIOUS
  <2> HIDE DEF Good
  <2>0. k \in Nat /\ (k <= Len(list) => Good(k))
    OBVIOUS
  <2> HIDE DEF T
  <2>1. Good(k)
    BY <1>0, <2>0
  <2>2. f[k + 1] = IF list[k + 1] \in gone THEN f[k]
                   ELSE Append(f[k], list[k + 1])
    <3>1. k + 1 \in 0..Len(list) /\ k + 1 # 0 /\ (k + 1) - 1 = k
      BY <1>0, <2>0
    <3> QED
      BY <3>1 DEF Filtered
  <2>3. Prefix(list, k + 1) = Prefix(list, k) \cup {list[k + 1]}
    <3>1. 1..(k + 1) = (1..k) \cup {k + 1}
      BY <2>0
    <3> QED
      BY <3>1 DEF Prefix
  <2>4. list[k + 1] \in S
    BY <1>0, <2>0
  <2> USE DEF Good
  <2>5. CASE list[k + 1] \in gone
    BY <2>1, <2>2, <2>3, <2>5
  <2>6. CASE list[k + 1] \notin gone
    <3>1. /\ f[k + 1] \in Seq(S)
          /\ Elements(f[k + 1]) = Elements(f[k]) \cup {list[k + 1]}
      BY <2>1, <2>2, <2>4, <2>6, AppendFacts
    <3>2. ASSUME Distinct(list) PROVE Distinct(f[k + 1])
      <4>1. list[k + 1] \notin Prefix(list, k)
        BY <1>0, <2>0, <3>2 DEF Distinct, Prefix
      <4> QED
        BY <2>1, <2>2, <2>4, <2>6, <3>2, <4>1, AppendFacts
    <3> QED
      BY <2>1, <2>3, <2>6, <3>1, <3>2
  <2> QED
    BY <2>5, <2>6
<1> HIDE DEF T
<1>3. T = Nat
  BY <1>1, <1>2, Induction DEF T
<1> QED
  BY <1>0, <1>3 DEF T

\* What is left of a list: a list of the same things, all of them that were
\* not to go and no others, without duplicates if there were none.
LEMMA WithoutFacts ==
  ASSUME NEW S, NEW list \in Seq(S), NEW gone
  PROVE  /\ Without(list, gone) \in Seq(S)
         /\ Elements(Without(list, gone)) = Elements(list) \ gone
         /\ Distinct(list) => Distinct(Without(list, gone))
<1>1. PICK f : /\ Filtered(list, gone, Len(list), f)
               /\ Without(list, gone) = f[Len(list)]
  BY WithoutIsFiltered
<1>2. Len(list) \in 0..Len(list) /\ Prefix(list, Len(list)) = Elements(list)
  BY DEF Prefix, Elements
<1> QED
  BY <1>1, <1>2, FilteredFacts

-----------------------------------------------------------------------------
\* What a broadcast has put on its list `dead` has stopped listening, and
\* stays so while the broadcast walks on.
DeadAreGone ==
  \A j \in Jobs : \A s \in Elements(dead[j]) : ws[s] \notin {"new", "open"}

ConnInv == TypeOK /\ ConnsAreLive /\ DeadAreGone

\* No clients, no list, no broadcast.
LEMMA ConnInit == Init => ConnInv
<1> SUFFICES ASSUME Init PROVE ConnInv
  OBVIOUS
<1>1. RecordTypeOK
  BY RecordInit DEF RecordInv
<1>2. Elements(<<>>) = {} /\ DOMAIN <<>> = {}
  <2>1. DOMAIN <<>> = {}
    OBVIOUS
  <2> QED
    BY <2>1 DEF Elements
<1>3. <<>> \in Seq(Sockets)
  OBVIOUS
<1>4. TypeOK
  BY <1>1, <1>3 DEF Init, TypeOK
<1>5. ConnsAreLive /\ DeadAreGone
  BY <1>2 DEF Init, ConnsAreLive, DeadAreGone
<1> QED
  BY <1>4, <1>5 DEF ConnInv

\* A step that touches neither the list, nor a socket, nor a broadcast.
LEMMA ConnUntouched ==
  ASSUME ConnInv, RecordTypeOK', UNCHANGED <<sockets, cast>>
  PROVE  ConnInv'
BY DEF ConnInv, TypeOK, ConnsAreLive, DeadAreGone, Elements, sockets, cast

\* Taking sockets off the list that have stopped listening.
LEMMA RemovalKeepsLive ==
  ASSUME ConnInv, NEW gone, \A s \in gone : s \in Sockets => ws[s] # "open"
  PROVE  LET rest == Without(conns, gone) IN
           /\ rest \in Seq(Sockets)
           /\ Elements(rest) = Elements(conns) \ gone
           /\ \A i, k \in DOMAIN rest : rest[i] = rest[k] => i = k
           /\ \A s \in Sockets : ws[s] = "open" => s \in Elements(rest)
<1>1. conns \in Seq(Sockets) /\ Distinct(conns)
  BY DEF ConnInv, TypeOK, ConnsAreLive, Distinct
<1>2. /\ Without(conns, gone) \in Seq(Sockets)
      /\ Elements(Without(conns, gone)) = Elements(conns) \ gone
      /\ Distinct(Without(conns, gone))
  BY <1>1, WithoutFacts
<1> QED
  BY <1>2 DEF ConnInv, ConnsAreLive, Distinct

\* A new client goes on the list, where it was not before.
LEMMA AcceptStep ==
  ASSUME ConnInv, RecordTypeOK', NEW s \in Sockets, Accept(s)
  PROVE  ConnInv'
<1> USE DEF ConnInv
<1>1. conns \in Seq(Sockets) /\ Distinct(conns) /\ s \notin Elements(conns)
  BY DEF TypeOK, ConnsAreLive, Distinct, Accept
<1>2. /\ conns' \in Seq(Sockets)
      /\ Elements(conns') = Elements(conns) \cup {s}
      /\ Distinct(conns')
  BY <1>1, AppendFacts DEF Accept
<1>3. ws' = [ws EXCEPT ![s] = "open"] /\ UNCHANGED cast
  BY DEF Accept
<1>4. TypeOK'
  BY <1>2, <1>3 DEF TypeOK, Accept, cast
<1>5. ConnsAreLive'
  <2>1. \A i, k \in DOMAIN conns' : conns'[i] = conns'[k] => i = k
    BY <1>2 DEF Distinct
  <2>2. Elements(conns)' = Elements(conns) \cup {s}
    BY <1>2 DEF Elements
  <2> QED
    BY <1>3, <2>1, <2>2 DEF TypeOK, ConnsAreLive
<1>6. DeadAreGone'
  BY <1>3 DEF DeadAreGone, Elements, Accept, cast, TypeOK
<1> QED
  BY <1>4, <1>5, <1>6

\* A client that leaves or whose endpoint fails stays on the list.
LEMMA ClientLeavesStep ==
  ASSUME ConnInv, RecordTypeOK', NEW s \in Sockets,
         ClientLeaves(s) \/ EndpointFails(s)
  PROVE  ConnInv'
<1> USE DEF ConnInv
<1>1. /\ \E after \in {"gone", "failed"} : ws' = [ws EXCEPT ![s] = after]
      /\ ws[s] = "open" /\ UNCHANGED <<sameModule, conns, cast>>
  BY DEF ClientLeaves, EndpointFails
<1>2. TypeOK'
  BY <1>1 DEF TypeOK, cast
<1>3. ConnsAreLive'
  BY <1>1 DEF TypeOK, ConnsAreLive, Elements
<1>4. DeadAreGone'
  BY <1>1 DEF DeadAreGone, Elements, cast, TypeOK
<1> QED
  BY <1>2, <1>3, <1>4

\* An endpoint takes its own socket off, if it is still there.
LEMMA EndpointEndsStep ==
  ASSUME ConnInv, RecordTypeOK', NEW s \in Sockets, EndpointEnds(s)
  PROVE  ConnInv'
<1> USE DEF ConnInv
<1>1. /\ conns' \in Seq(Sockets)
      /\ Elements(conns') = Elements(conns) \ {s}
      /\ \A i, k \in DOMAIN conns' : conns'[i] = conns'[k] => i = k
      /\ \A t \in Sockets : ws[t] = "open" => t \in Elements(conns')
  <2>1. \A t \in {s} : t \in Sockets => ws[t] # "open"
    BY DEF EndpointEnds
  <2>2. conns' = Without(conns, {s})
    BY DEF EndpointEnds
  <2> QED
    BY <2>1, <2>2, RemovalKeepsLive
<1>2. /\ ws' = [ws EXCEPT ![s] = "closed"] /\ ws[s] = "gone"
      /\ UNCHANGED cast
  BY DEF EndpointEnds
<1>3. TypeOK'
  BY <1>1, <1>2 DEF TypeOK, EndpointEnds, cast
<1>4. ConnsAreLive'
  <2>1. Elements(conns)' = Elements(conns')
    BY DEF Elements
  <2> QED
    BY <1>1, <1>2, <2>1 DEF TypeOK, ConnsAreLive
<1>5. DeadAreGone'
  BY <1>2 DEF DeadAreGone, Elements, cast, TypeOK
<1> QED
  BY <1>3, <1>4, <1>5

\* A turn of a broadcast, which may find that a socket on the list is dead.
LEMMA PushStep ==
  ASSUME ConnInv, RecordTypeOK', NEW j \in Jobs, Push(j)
  PROVE  ConnInv'
<1> USE DEF ConnInv
<1> DEFINE s == conns[pos[j] + 1]
<1>1. /\ pos[j] + 1 \in DOMAIN conns /\ s \in Elements(conns)
      /\ s \in Sockets /\ sameModule
  <2>1. sameModule /\ Listeners = conns
    <3>1. Len(<<>>) = 0
      OBVIOUS
    <3> QED
      BY <3>1 DEF Push, Listeners, TypeOK
  <2>2. pos[j] \in Nat /\ pos[j] < Len(conns) /\ conns \in Seq(Sockets)
    BY <2>1 DEF Push, TypeOK
  <2> QED
    BY <2>1, <2>2 DEF Elements
<1>2. ws[s] # "new" /\ UNCHANGED sockets
  BY <1>1 DEF ConnsAreLive, Push
<1>3. Listeners[pos[j] + 1] = s
  BY <1>1 DEF Listeners
<1>4. /\ \/ pushed' = [pushed EXCEPT ![j] = @ \cup {s}] /\ UNCHANGED dead
         \/ /\ ws[s] # "open" /\ UNCHANGED pushed
            /\ dead' = [dead EXCEPT ![j] = Append(@, s)]
      /\ pos' = [pos EXCEPT ![j] = @ + 1]
  BY <1>3 DEF Push
<1> HIDE DEF s
<1>5. TypeOK'
  <2>1. pos' \in [Jobs -> Nat]
    BY <1>4 DEF TypeOK
  <2>2. dead' \in [Jobs -> Seq(Sockets)]
    <3>1. Append(dead[j], s) \in Seq(Sockets)
      BY <1>1, AppendFacts DEF TypeOK
    <3> QED
      BY <1>4, <3>1 DEF TypeOK
  <2>3. pushed' \in [Jobs -> SUBSET Sockets]
    BY <1>1, <1>4 DEF TypeOK
  <2> QED
    BY <1>2, <2>1, <2>2, <2>3 DEF TypeOK, sockets
<1>6. ConnsAreLive'
  BY <1>2 DEF ConnsAreLive, Elements, sockets
<1>7. DeadAreGone'
  <2>1. CASE UNCHANGED dead
    BY <1>2, <2>1 DEF DeadAreGone, Elements, sockets
  <2>2. CASE ws[s] # "open" /\ dead' = [dead EXCEPT ![j] = Append(@, s)]
    <3>1. Elements(dead'[j]) = Elements(dead[j]) \cup {s}
      BY <1>1, <2>2, AppendFacts DEF TypeOK
    <3>2. \A k \in Jobs : k # j => dead'[k] = dead[k]
      BY <2>2 DEF TypeOK
    <3>3. \A k \in Jobs :
            \A t \in Elements(dead'[k]) : ws[t] \notin {"new", "open"}
      BY <1>2, <2>2, <3>1, <3>2 DEF DeadAreGone
    <3> QED
      BY <1>2, <3>3 DEF DeadAreGone, sockets, Elements
  <2> QED
    BY <1>4, <2>1, <2>2
<1> QED
  BY <1>5, <1>6, <1>7

\* A broadcast takes off what it found dead, up to the first that is gone.
LEMMA EndCastStep ==
  ASSUME ConnInv, RecordTypeOK', NEW j \in Jobs, EndCast(j)
  PROVE  ConnInv'
<1> USE DEF ConnInv
<1>1. /\ conns' \in Seq(Sockets)
      /\ Elements(conns') \subseteq Elements(conns)
      /\ \A i, k \in DOMAIN conns' : conns'[i] = conns'[k] => i = k
      /\ \A t \in Sockets : ws[t] = "open" => t \in Elements(conns')
  <2>1. \A t \in Removable(j) : t \in Sockets => ws[t] # "open"
    BY DEF Removable, DeadAreGone
  <2>2. conns' = Without(conns, Removable(j))
    BY DEF EndCast
  <2> QED
    BY <2>1, <2>2, RemovalKeepsLive
<1>2. UNCHANGED <<sameModule, ws, cast>>
  BY DEF EndCast
<1>3. TypeOK'
  BY <1>1, <1>2 DEF TypeOK, cast
<1>4. ConnsAreLive'
  <2>1. Elements(conns)' = Elements(conns')
    BY DEF Elements
  <2> QED
    BY <1>1, <1>2, <2>1 DEF ConnsAreLive
<1>5. DeadAreGone'
  BY <1>2 DEF DeadAreGone, Elements, cast
<1> QED
  BY <1>3, <1>4, <1>5

\* Every step, given that the records keep their types (RecordStep).
LEMMA ConnStep == ConnInv /\ RecordTypeOK' /\ [Next]_vars => ConnInv'
<1> SUFFICES ASSUME ConnInv, RecordTypeOK', [Next]_vars PROVE ConnInv'
  OBVIOUS
<1>1. ASSUME NEW s \in Sockets, Client(s) PROVE ConnInv'
  BY <1>1, AcceptStep, ClientLeavesStep, EndpointEndsStep DEF Client
<1>2. ASSUME NEW j \in Jobs, Submit(j) \/ Run(j) PROVE ConnInv'
  BY <1>2, ConnUntouched
     DEF Submit, Run, StartAsync, StartSync, StampSync, WorkDone, WorkFails
<1>3. ASSUME NEW j \in Jobs, Cast(j) PROVE ConnInv'
  BY <1>3, PushStep, EndCastStep DEF Cast
<1>4. CASE UNCHANGED vars
  BY <1>4, ConnUntouched DEF vars
<1> QED
  BY <1>1, <1>2, <1>3, <1>4 DEF Next

LEMMA ConnAlways == Spec => []ConnInv
<1>1. RecordInv => RecordTypeOK
  BY DEF RecordInv
<1> QED
  BY <1>1, ConnInit, ConnStep, RecordAlways, PTL DEF Spec

\* Every variable keeps its type; above all the list and the local lists of
\* the broadcasts remain sequences of sockets however they are cleaned up.
THEOREM JobsTypeCorrect == Spec => []TypeOK
<1>1. ConnInv => TypeOK
  BY DEF ConnInv
<1> QED
  BY <1>1, ConnAlways, PTL

\* The list of connections has each connected client, once, and nobody whose
\* endpoint has seen the disconnect, with one list or with two.
THEOREM ConnsAlwaysLive == Spec => []ConnsAreLive
<1>1. ConnInv => ConnsAreLive
  BY DEF ConnInv
<1> QED
  BY <1>1, ConnAlways, PTL
=============================================================================
