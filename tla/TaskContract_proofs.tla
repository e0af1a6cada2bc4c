------------------------ MODULE TaskContract_proofs ------------------------
(***************************************************************************)
(* TLAPS proofs about the contract of a provisioning task.                 *)
(***************************************************************************)
EXTENDS TaskContract, TLAPS

\* Every variable of the contract keeps its type.
THEOREM Typing == Spec => []TypeOK
<1>1. Init => TypeOK
  BY DEF Init, TypeOK, Results, Started
<1>2. TypeOK /\ [Next]_vars => TypeOK'
  <2> SUFFICES ASSUME TypeOK, [Next]_vars PROVE TypeOK'
    OBVIOUS
  <2>1. ASSUME NEW t \in Tasks, NEW j \in Jobs, Start(t, j) PROVE TypeOK'
    BY <2>1 DEF Start, TypeOK, Started, Jobs, NoJob
  <2>2. ASSUME NEW t \in Tasks, Write(t) PROVE TypeOK'
    <3>1. job[t] \in Jobs /\ job[t].key \in Keys
      BY <2>2 DEF Write, Started, TypeOK, Jobs
    <3> QED
      BY <2>2, <3>1 DEF Write, Observe, TypeOK, Started
  <2>3. ASSUME NEW t \in Tasks, NEW r \in {"success", "failure"}, Finish(t, r)
        PROVE TypeOK'
    BY <2>3 DEF Finish, TypeOK, Started, Results
  <2>4. CASE Outside
    BY <2>4 DEF Outside, Observe, TypeOK, Started
  <2>5. CASE UNCHANGED vars
    BY <2>5 DEF vars, TypeOK, Started
  <2> QED
    BY <2>1, <2>2, <2>3, <2>4, <2>5 DEF Next
<1> QED
  BY <1>1, <1>2, PTL DEF Spec

-----------------------------------------------------------------------------
\* A success that is reported is true: the goal held at some instant between
\* the start of the task and the report.
THEOREM Truth == Spec => []OutcomeIsTrue
<1>1. Init => OutcomeIsTrue
  BY DEF Init, OutcomeIsTrue
<1>2. TypeOK /\ OutcomeIsTrue /\ [Next]_vars => OutcomeIsTrue'
  <2> SUFFICES ASSUME TypeOK, OutcomeIsTrue, [Next]_vars PROVE OutcomeIsTrue'
    OBVIOUS
  <2>1. ASSUME NEW t \in Tasks, NEW j \in Jobs, Start(t, j) PROVE OutcomeIsTrue'
    BY <2>1 DEF Start, OutcomeIsTrue
  <2>2. ASSUME NEW t \in Tasks, Write(t) PROVE OutcomeIsTrue'
    BY <2>2 DEF Write, Observe, OutcomeIsTrue
  <2>3. ASSUME NEW t \in Tasks, NEW r \in {"success", "failure"}, Finish(t, r)
        PROVE OutcomeIsTrue'
    BY <2>3 DEF Finish, OutcomeIsTrue, TypeOK
  <2>4. CASE Outside
    BY <2>4 DEF Outside, Observe, OutcomeIsTrue
  <2>5. CASE UNCHANGED vars
    BY <2>5 DEF vars, OutcomeIsTrue
  <2> QED
    BY <2>1, <2>2, <2>3, <2>4, <2>5 DEF Next
<1> QED
  BY <1>1, <1>2, Typing, PTL DEF Spec

-----------------------------------------------------------------------------
\* A goal that was met lasts while nobody else touches the key: the step that
\* could break it is a write of another task or an outside change, and each
\* takes the task out of `alone`.
THEOREM Lasting == Spec => []MetLasts
<1>1. Init => MetLasts
  BY DEF Init, MetLasts
<1>2. TypeOK /\ MetLasts /\ [Next]_vars => MetLasts'
  <2> SUFFICES ASSUME TypeOK, MetLasts, [Next]_vars PROVE MetLasts'
    OBVIOUS
  <2>1. ASSUME NEW t \in Tasks, NEW j \in Jobs, Start(t, j) PROVE MetLasts'
    <3> SUFFICES ASSUME NEW u \in (met \cap alone)' PROVE Achieved(job[u], assigned)'
      BY DEF MetLasts
    <3>1. CASE u = t
      <4>1. t \notin met
        BY <2>1 DEF Start, TypeOK, Started
      <4> QED
        BY <2>1, <3>1, <4>1 DEF Start, TypeOK, Achieved
    <3>2. CASE u # t
      BY <2>1, <3>2 DEF Start, MetLasts, TypeOK, Achieved
    <3> QED
      BY <3>1, <3>2
  <2>2. ASSUME NEW t \in Tasks, Write(t) PROVE MetLasts'
    <3> SUFFICES ASSUME NEW u \in (met \cap alone)' PROVE Achieved(job[u], assigned)'
      BY DEF MetLasts
    <3>1. CASE u = t
      BY <2>2, <3>1 DEF Write, Achieved
    <3>2. CASE u # t
      BY <2>2, <3>2 DEF Write, Observe, MetLasts, Achieved
    <3> QED
      BY <3>1, <3>2
  <2>3. ASSUME NEW t \in Tasks, NEW r \in {"success", "failure"}, Finish(t, r)
        PROVE MetLasts'
    BY <2>3 DEF Finish, MetLasts, Achieved
  <2>4. CASE Outside
    <3> SUFFICES ASSUME NEW u \in (met \cap alone)' PROVE Achieved(job[u], assigned)'
      BY DEF MetLasts
    <3>1. u \in Tasks /\ u \in alone
      BY <2>4 DEF Outside, Observe, TypeOK, Started
    <3> QED
      BY <2>4, <3>1 DEF Outside, Observe, MetLasts, Achieved
  <2>5. CASE UNCHANGED vars
    BY <2>5 DEF vars, MetLasts, Achieved
  <2> QED
    BY <2>1, <2>2, <2>3, <2>4, <2>5 DEF Next
<1> QED
  BY <1>1, <1>2, Typing, PTL DEF Spec

\* A task that reported success is effective until somebody else undoes it.
THEOREM Efficacy == Spec => []Effective
<1>1. OutcomeIsTrue /\ MetLasts /\ TypeOK => Effective
  BY DEF OutcomeIsTrue, MetLasts, Effective, TypeOK, Started
<1> QED
  BY <1>1, Truth, Lasting, Typing, PTL
=============================================================================
