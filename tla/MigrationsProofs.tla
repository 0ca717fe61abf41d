-------------------------- MODULE MigrationsProofs --------------------------
(***************************************************************************)
(* Proofs about Migrations, for any number of runs.  The invariant is that *)
(* the schema is what the one upgrade that got past its first statement    *)
(* has made so far; everybody else stumbles over it.                       *)
(***************************************************************************)
EXTENDS Migrations, TLAPS

\* What the first n statements of upgrade() make.
Made(n) ==
  {o \in Objects : \/ o = "users" /\ n > 0
                   \/ o = "ix_users_email" /\ n > 1
                   \/ o = "jobs" /\ n > 2
                   \/ o = "ix_jobs_user_id" /\ n > 3}

MadeBySteps ==
  /\ (\A r \in Runs : step[r] = 0) => schema = {}
  /\ \A r \in Runs : step[r] > 0 =>
       command[r] = "upgrade" /\ run[r] # "idle" /\ schema = Made(step[r])

StampedAtEnd ==
  /\ version = "head" => \E r \in Runs : step[r] = 4
  /\ \A r \in Runs : run[r] = "working" /\ command[r] = "downgrade" =>
       version = "head"
  /\ \A r \in Runs : step[r] > 0 /\ run[r] # "done" => version = "base"

IInv == TypeOK /\ OneMigrates /\ MadeBySteps /\ StampedAtEnd

LEMMA MigrationsInit == Init => IInv
BY DEF Init, IInv, TypeOK, OneMigrates, MadeBySteps, StampedAtEnd

Order == <<"users", "ix_users_email", "jobs", "ix_jobs_user_id">>

LEMMA MadeNext ==
  \A n \in 0..3 : Made(n) \cup {Order[n + 1]} = Made(n + 1)
<1> SUFFICES ASSUME NEW n \in {0, 1, 2, 3}
             PROVE  Made(n) \cup {Order[n + 1]} = Made(n + 1)
  OBVIOUS
<1> USE DEF Made, Order, Objects
<1>1. CASE n = 0 BY <1>1
<1>2. CASE n = 1 BY <1>2
<1>3. CASE n = 2 BY <1>3
<1>4. CASE n = 3 BY <1>4
<1> QED
  BY <1>1, <1>2, <1>3, <1>4

\* An upgrade may go on where it is; a downgrade may not even begin, and an
\* upgrade may not begin where another has been.
LEMMA AcceptedStatement ==
  ASSUME IInv, NEW r \in Runs, run[r] = "working", step[r] < 4,
         Accepts(Statement(r))
  PROVE  /\ command[r] = "upgrade"
         /\ \A q \in Runs : step[q] > 0 => q = r
         /\ After(Statement(r)) = Made(step[r] + 1)
<1> USE DEF IInv, TypeOK, OneMigrates, MadeBySteps, StampedAtEnd, Made, Objects,
            Statement, Statements, Accepts, After, Create, Drop
<1>1. command[r] = "upgrade"
  <2> SUFFICES ASSUME command[r] = "downgrade" PROVE FALSE
    OBVIOUS
  <2>1. Statement(r) = Drop("ix_jobs_user_id")
    OBVIOUS
  <2>2. "jobs" \in schema
    OBVIOUS
  <2> QED
    BY <2>1, <2>2
<1>2. \A q \in Runs : step[q] > 0 => q = r
  <2> SUFFICES ASSUME NEW q \in Runs, step[q] > 0, q # r PROVE FALSE
    OBVIOUS
  <2>1. Statement(r) = Create("users") /\ "users" \in schema
    BY <1>1
  <2> QED
    BY <2>1
<1>3. schema = Made(step[r])
  <2> HIDE DEF Statement, Statements, Accepts, After, Create, Drop
  <2>1. CASE step[r] > 0
    BY <2>1
  <2>2. CASE step[r] = 0
    <3>1. \A q \in Runs : step[q] = 0
      <4> SUFFICES ASSUME NEW q \in Runs PROVE step[q] = 0
        OBVIOUS
      <4>1. step[q] \in 0..4 /\ ~ (step[q] > 0)
        BY <1>2, <2>2
      <4> QED
        BY <4>1
    <3>2. schema = {}
      BY <3>1
    <3> QED
      BY <2>2, <3>2
  <2> QED
    BY <2>1, <2>2
<1>4. /\ Statement(r) = Create(Order[step[r] + 1])
      /\ After(Statement(r)) = schema \cup {Order[step[r] + 1]}
  <2>1. step[r] \in {0, 1, 2, 3}
    OBVIOUS
  <2>2. Statement(r) = Statements.upgrade[step[r] + 1]
    BY <1>1
  <2>3. \A n \in {0, 1, 2, 3} :
          Statements.upgrade[n + 1] = Create(Order[n + 1])
    BY DEF Order
  <2>4. Statement(r) = Create(Order[step[r] + 1])
    BY <2>1, <2>2, <2>3
  <2>5. ASSUME NEW o PROVE After(Create(o)) = schema \cup {o}
    OBVIOUS
  <2> HIDE DEF Statement, After, Create
  <2> QED
    BY <2>4, <2>5
<1>5. step[r] \in 0..3
  OBVIOUS
<1> HIDE DEF Statement, After, Create, Made
<1> QED
  BY <1>1, <1>2, <1>3, <1>4, <1>5, MadeNext

LEMMA MigrationsStep == IInv /\ [Next]_vars => IInv'
<1> SUFFICES ASSUME IInv, [Next]_vars PROVE IInv'
  OBVIOUS
<1> USE DEF IInv, TypeOK, OneMigrates, MadeBySteps, StampedAtEnd, db
<1>1. ASSUME NEW r \in Runs, Start(r) PROVE IInv'
  BY <1>1 DEF Start, From
<1>2. ASSUME NEW r \in Runs, Execute(r), Accepts(Statement(r)) PROVE IInv'
  <2>1. /\ command[r] = "upgrade" /\ \A q \in Runs : step[q] > 0 => q = r
        /\ schema' = Made(step[r] + 1)
    BY <1>2, AcceptedStatement DEF Execute, Apply
  <2>2. schema' \subseteq Objects
    BY <2>1 DEF Made
  <2>3. version = "base"
    BY <1>2, <2>1 DEF Execute
  <2> QED
    BY <1>2, <2>1, <2>2, <2>3 DEF Execute, Apply
<1>3. ASSUME NEW r \in Runs, Stop(r), run[r] = "working",
             UNCHANGED <<version, command>>
      PROVE  IInv'
  BY <1>3 DEF Stop
<1>4. ASSUME NEW r \in Runs, Stamp(r) PROVE IInv'
  BY <1>4 DEF Stamp, StampAt, To
<1>5. CASE UNCHANGED vars
  BY <1>5 DEF vars
<1> QED
  BY <1>1, <1>2, <1>3, <1>4, <1>5 DEF Next, Execute, Die

LEMMA MigrationsAlways == Spec => []IInv
BY MigrationsInit, MigrationsStep, PTL DEF Spec

\* Every variable keeps its type.
THEOREM MigrationsTypeCorrect == Spec => []TypeOK
BY MigrationsAlways, PTL DEF IInv

\* The stamped version is never ahead of the schema.
THEOREM VersionAlwaysTruthful == Spec => []VersionTruthful
<1>1. IInv => VersionTruthful
  BY DEF IInv, TypeOK, MadeBySteps, StampedAtEnd, VersionTruthful, Made, Objects
<1> QED
  BY <1>1, MigrationsAlways, PTL

\* However many runs there are, one of them does all the work.
THEOREM OneAlwaysMigrates == Spec => []OneMigrates
BY MigrationsAlways, PTL DEF IInv

\* A migration that died half-way stays as it is.
THEOREM HalfMigratedIsFinal == Spec => HalfMigratedStays
<1>1. IInv /\ [Next]_vars =>
        [\A r \in Runs : run[r] = "failed" /\ step[r] > 0 => UNCHANGED db]_vars
  <2> SUFFICES ASSUME IInv, Next, NEW r \in Runs, run[r] = "failed", step[r] > 0
               PROVE  UNCHANGED db
    OBVIOUS
  <2>1. ASSUME NEW q \in Runs, Execute(q) PROVE UNCHANGED db
    <3>1. ~ Accepts(Statement(q))
      BY <2>1, AcceptedStatement DEF Execute
    <3> QED
      BY <2>1, <3>1 DEF Execute, Stop, db
  <2>2. ASSUME NEW q \in Runs PROVE ~ Stamp(q)
    BY DEF Stamp, StampAt, IInv, TypeOK, OneMigrates
  <2> QED
    BY <2>1, <2>2 DEF Next, Start, Die, Stop, db
<1> QED
  BY <1>1, MigrationsAlways, PTL DEF Spec, HalfMigratedStays

\* No command takes the head back: where there is something to downgrade,
\* MySQL refuses the first statement of downgrade().
THEOREM HeadStays == Spec => HeadIsFinal
<1>1. IInv /\ [Next]_vars => [version = "head" => UNCHANGED db]_vars
  <2> SUFFICES ASSUME IInv, Next, version = "head" PROVE UNCHANGED db
    OBVIOUS
  <2>1. ASSUME NEW r \in Runs, Execute(r) PROVE UNCHANGED db
    <3>1. PICK q \in Runs : step[q] = 4
      BY DEF IInv, StampedAtEnd
    <3>2. ~ Accepts(Statement(r))
      BY <2>1, <3>1, AcceptedStatement DEF Execute
    <3> QED
      BY <2>1, <3>2 DEF Execute, Stop, db
  <2>2. ASSUME NEW r \in Runs, Stamp(r) PROVE UNCHANGED db
    <3>1. command[r] = "upgrade"
      BY <2>2 DEF Stamp, StampAt, IInv, MadeBySteps
    <3> QED
      BY <2>2, <3>1 DEF Stamp, StampAt, To, db
  <2> QED
    BY <2>1, <2>2 DEF Next, Start, Die, Stop, db
<1> QED
  BY <1>1, MigrationsAlways, PTL DEF Spec, HeadIsFinal
=============================================================================
