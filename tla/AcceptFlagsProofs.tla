------------------------- MODULE AcceptFlagsProofs -------------------------
(***************************************************************************)
(* Proofs about accept and set_blocking when callers do not let calls on   *)
(* the socket overlap: for any threads, backlog and platform branch, the   *)
(* system calls amount to the atomic operations of Listener.               *)
(* On Windows, accepts that do overlap still put the mode back.            *)
(***************************************************************************)
EXTENDS AcceptFlags, TLAPS

\* At most one thread is in a call.
OneCall == \A t, u \in Threads : pc[t] # "idle" /\ pc[u] # "idle" => t = u

\* What the steps of a call rely on: outside the window in which accept has the
\* mode aside and the two steps of set_blocking, descriptor and structure agree;
\* inside, the local variable holds the mode and accept finds the flag set.
Busy == \E t \in Threads : InAccept(t) \/ pc[t] = "setfield"
Agree ==
  /\ ~Busy => nonblock = ~blocking
  /\ \A t \in Threads :
       /\ pc[t] = "setfl" => Saved(t) = ~blocking
       /\ InAccept(t) => Saved(t) = ~blocking
       /\ pc[t] = "accept" => nonblock = TRUE
       /\ pc[t] = "setfield" => nonblock = ~mode[t]

\* ModeRestored alone says nothing of a call in progress, on which the next
\* state of the flags depends: it is Agree that is inductive.
IInv == TypeOK /\ OneCall /\ Agree /\ NeverWaits

-----------------------------------------------------------------------------
LEMMA InitIInv == Init => IInv
<1> SUFFICES ASSUME Init PROVE IInv
  OBVIOUS
<1>1. TypeOK
  <2>1. pending \in 0..Backlog /\ result \in [Threads -> {0, -1}]
    BY AcceptFlagsAssumption DEF Init
  <2>2. flags \in [Threads -> BOOLEAN] /\ mode \in [Threads -> BOOLEAN]
    BY Zenon DEF Init
  <2> QED
    BY <2>1, <2>2 DEF Init, TypeOK, Steps
<1>2. OneCall /\ NeverWaits
  BY DEF Init, OneCall, NeverWaits
<1>3. Agree
  BY DEF Init, Agree, Busy, InAccept
<1> QED
  BY <1>1, <1>2, <1>3 DEF IInv

LEMMA CallKeeps ==
  ASSUME Serialised, IInv, NEW t \in Threads, CallAccept(t) \/ CallSetBlocking(t)
  PROVE  IInv'
<1>1. \A u \in Threads : pc[u] = "idle"
  BY DEF CallAccept, CallSetBlocking, MayCall
<1>2. TypeOK'
  BY AcceptFlagsAssumption
     DEF IInv, TypeOK, CallAccept, CallSetBlocking, Goto, Steps
<1>3. /\ pc'[t] \in {"getfl", "setfl", "setmode"} /\ (pc'[t] = "setfl" => Windows)
      /\ \A u \in Threads \ {t} : pc'[u] = "idle"
      /\ nonblock' = nonblock /\ blocking' = blocking
  BY <1>1 DEF IInv, TypeOK, CallAccept, CallSetBlocking, Goto
<1>4. OneCall' /\ NeverWaits'
  BY <1>3 DEF OneCall, NeverWaits
<1>5. nonblock = ~blocking
  BY <1>1 DEF IInv, Agree, Busy, InAccept
<1>6. Agree'
  BY <1>3, <1>5 DEF Agree, Busy, InAccept, Saved
<1> QED
  BY <1>2, <1>4, <1>6 DEF IInv

\* While t is in a call, nobody else is, before and after any step of t.
LEMMA Alone ==
  ASSUME IInv, NEW t \in Threads, pc[t] # "idle", NEW step, Goto(t, step)
  PROVE  /\ \A u \in Threads \ {t} : pc[u] = "idle" /\ pc'[u] = "idle"
         /\ pc'[t] = step
BY DEF IInv, TypeOK, OneCall, Goto

LEMMA GetFlagsKeeps ==
  ASSUME IInv, NEW t \in Threads, GetFlags(t)
  PROVE  IInv'
<1>1. TypeOK'
  BY DEF IInv, TypeOK, GetFlags, Goto, Steps
<1>2. pc'[t] = "setfl" /\ \A u \in Threads \ {t} : pc[u] = "idle" /\ pc'[u] = "idle"
  BY Alone DEF GetFlags
<1>3. nonblock = ~blocking
  BY <1>2 DEF IInv, Agree, Busy, InAccept, GetFlags
<1>4. flags'[t] = nonblock
  BY DEF GetFlags, IInv, TypeOK
<1>5. OneCall' /\ NeverWaits'
  BY <1>2 DEF OneCall, NeverWaits
<1>6. Agree'
  BY <1>2, <1>3, <1>4 DEF Agree, Busy, InAccept, Saved, GetFlags
<1> QED
  BY <1>1, <1>5, <1>6 DEF IInv

LEMMA SetNonblockingKeeps ==
  ASSUME IInv, NEW t \in Threads, SetNonblocking(t)
  PROVE  IInv'
<1>1. TypeOK'
  BY DEF IInv, TypeOK, SetNonblocking, Goto, Steps
<1>2. pc'[t] = "accept" /\ \A u \in Threads \ {t} : pc[u] = "idle" /\ pc'[u] = "idle"
  BY Alone DEF SetNonblocking
<1>3. OneCall' /\ NeverWaits'
  BY <1>2 DEF OneCall, NeverWaits
<1>4. Saved(t) = ~blocking
  BY DEF IInv, Agree, SetNonblocking
<1>5. Saved(t)' = Saved(t) /\ blocking' = blocking /\ nonblock' = TRUE
  BY DEF SetNonblocking, Saved
<1>6. Agree'
  BY <1>2, <1>4, <1>5 DEF Agree, Busy, InAccept
<1> QED
  BY <1>1, <1>3, <1>6 DEF IInv

LEMMA AcceptKeeps ==
  ASSUME IInv, NEW t \in Threads, Accept(t)
  PROVE  IInv' /\ pc[t] = "accept" /\ pc'[t] = "restore"
<1>1. pc[t] = "accept" /\ nonblock = TRUE
  BY DEF IInv, NeverWaits, Agree, Accept
<1>2. Goto(t, "restore")
  BY <1>1 DEF Accept
<1>3. TypeOK'
  <2>1. pending' \in 0..Backlog
    BY AcceptFlagsAssumption DEF IInv, TypeOK, Accept
  <2>2. result' \in [Threads -> {0, -1}]
    BY DEF IInv, TypeOK, Accept
  <2> QED
    BY <1>2, <2>1, <2>2 DEF IInv, TypeOK, Accept, Goto, Steps
<1>4. pc'[t] = "restore" /\ \A u \in Threads \ {t} : pc[u] = "idle" /\ pc'[u] = "idle"
  BY <1>1, <1>2, Alone
<1>5. OneCall' /\ NeverWaits'
  BY <1>4 DEF OneCall, NeverWaits
<1>6. Saved(t) = ~blocking /\ Saved(t)' = Saved(t) /\ blocking' = blocking
  BY <1>1 DEF IInv, Agree, InAccept, Accept, Saved
<1>7. Agree'
  BY <1>4, <1>6 DEF Agree, Busy, InAccept
<1> QED
  BY <1>1, <1>3, <1>4, <1>5, <1>7 DEF IInv

LEMMA RestoreKeeps ==
  ASSUME IInv, NEW t \in Threads, Restore(t)
  PROVE  IInv'
<1>1. Saved(t) = ~blocking /\ Saved(t) \in BOOLEAN
  BY DEF IInv, Agree, InAccept, Restore, TypeOK, Saved
<1>2. TypeOK'
  BY <1>1 DEF IInv, TypeOK, Restore, Goto, Steps
<1>3. \A u \in Threads : pc'[u] = "idle"
  BY Alone DEF Restore
<1>4. OneCall' /\ NeverWaits'
  BY <1>3 DEF OneCall, NeverWaits
<1>5. Agree'
  BY <1>1, <1>3 DEF Agree, Busy, InAccept, Restore
<1> QED
  BY <1>2, <1>4, <1>5 DEF IInv

LEMMA SetModeKeeps ==
  ASSUME IInv, NEW t \in Threads, SetMode(t)
  PROVE  IInv'
<1>1. mode[t] \in BOOLEAN
  BY DEF IInv, TypeOK
<1>2. TypeOK'
  BY <1>1 DEF IInv, TypeOK, SetMode, Goto, Steps
<1>3. pc'[t] = "setfield" /\ \A u \in Threads \ {t} : pc[u] = "idle" /\ pc'[u] = "idle"
  BY Alone DEF SetMode
<1>4. OneCall' /\ NeverWaits'
  BY <1>3 DEF OneCall, NeverWaits
<1>5. Agree'
  BY <1>3 DEF Agree, Busy, InAccept, SetMode
<1> QED
  BY <1>2, <1>4, <1>5 DEF IInv

LEMMA SetFieldKeeps ==
  ASSUME IInv, NEW t \in Threads, SetField(t)
  PROVE  IInv'
<1>1. mode[t] \in BOOLEAN /\ nonblock = ~mode[t]
  BY DEF IInv, TypeOK, Agree, SetField
<1>2. TypeOK'
  BY <1>1 DEF IInv, TypeOK, SetField, Goto, Steps
<1>3. \A u \in Threads : pc'[u] = "idle"
  BY Alone DEF SetField
<1>4. OneCall' /\ NeverWaits'
  BY <1>3 DEF OneCall, NeverWaits
<1>5. Agree'
  BY <1>1, <1>3 DEF Agree, Busy, InAccept, SetField
<1> QED
  BY <1>2, <1>4, <1>5 DEF IInv

LEMMA ArriveKeeps ==
  ASSUME IInv, Arrive
  PROVE  IInv'
<1>1. TypeOK'
  BY AcceptFlagsAssumption DEF IInv, TypeOK, Arrive
<1>2. OneCall' /\ NeverWaits' /\ Agree'
  BY DEF IInv, Arrive, OneCall, NeverWaits, Agree, Busy, InAccept, Saved
<1> QED
  BY <1>1, <1>2 DEF IInv

LEMMA NextIInv ==
  ASSUME Serialised
  PROVE  IInv /\ [Next]_vars => IInv'
<1> SUFFICES ASSUME IInv, [Next]_vars PROVE IInv'
  OBVIOUS
<1>1. ASSUME NEW t \in Threads, CallAccept(t) \/ CallSetBlocking(t) PROVE IInv'
  BY <1>1, CallKeeps
<1>2. ASSUME NEW t \in Threads, Continue(t) PROVE IInv'
  BY <1>2, GetFlagsKeeps, SetNonblockingKeeps, AcceptKeeps, RestoreKeeps, SetModeKeeps,
     SetFieldKeeps DEF Continue
<1>3. CASE Arrive
  BY <1>3, ArriveKeeps
<1>4. CASE UNCHANGED vars
  BY <1>4 DEF vars, IInv, TypeOK, OneCall, Agree, Busy, InAccept, Saved, NeverWaits
<1> QED
  BY <1>1, <1>2, <1>3, <1>4 DEF Next

-----------------------------------------------------------------------------
\* With serialised callers the invariant holds.
THEOREM Invariant == ASSUME Serialised PROVE Spec => []IInv
<1>1. IInv /\ [Next]_vars => IInv'
  BY NextIInv
<1> QED
  BY <1>1, InitIInv, PTL DEF Spec

\* Types.
THEOREM Types == ASSUME Serialised PROVE Spec => []TypeOK
<1>1. IInv => TypeOK
  BY DEF IInv
<1> QED
  BY <1>1, Invariant, PTL

\* With serialised callers, accept puts the mode of the socket back, on POSIX
\* from the flags it read and on Windows from the structure.
THEOREM FlagsRestored == ASSUME Serialised PROVE Spec => []ModeRestored
<1>1. IInv => ModeRestored
  BY DEF IInv, Agree, Busy, InAccept, ModeRestored
<1> QED
  BY <1>1, Invariant, PTL

\* With serialised callers, accept never waits in the kernel.
THEOREM AcceptNeverWaits == ASSUME Serialised PROVE Spec => []NeverWaits
<1>1. IInv => NeverWaits
  BY DEF IInv
<1> QED
  BY <1>1, Invariant, PTL

-----------------------------------------------------------------------------
(* Refinement.  Under the invariant the promised mode is one value, so it  *)
(* is enough to follow the structure's.                                    *)

LEMMA OneMode == IInv => ListenerNonblock = ~ListenerBlocking
<1> SUFFICES ASSUME IInv PROVE ListenerNonblock = ~ListenerBlocking
  OBVIOUS
<1>1. CASE \E t \in Threads : InAccept(t)
  <2>1. PICK t \in Threads : InAccept(t)
    BY <1>1
  <2>2. \A u \in Threads : u # t => pc[u] = "idle"
    BY <2>1 DEF IInv, OneCall, InAccept
  <2>3. ListenerNonblock = Saved(t)
    BY <2>1, <2>2 DEF ListenerNonblock, InAccept, IInv, TypeOK, Saved
  <2>4. ListenerBlocking = blocking
    BY <2>1, <2>2 DEF ListenerBlocking, InAccept
  <2>5. Saved(t) = ~blocking
    BY <2>1 DEF IInv, Agree
  <2> QED
    BY <2>3, <2>4, <2>5
<1>2. CASE ~ \E t \in Threads : InAccept(t)
  <2>1. ListenerNonblock = nonblock
    BY <1>2 DEF ListenerNonblock
  <2>2. CASE \E t \in Threads : pc[t] = "setfield"
    <3>1. PICK t \in Threads : pc[t] = "setfield"
      BY <2>2
    <3>2. \A u \in Threads : u # t => pc[u] = "idle"
      BY <3>1 DEF IInv, OneCall
    <3>3. ListenerBlocking = mode[t]
      BY <3>1, <3>2 DEF ListenerBlocking, IInv, TypeOK
    <3>4. nonblock = ~mode[t]
      BY <3>1 DEF IInv, Agree
    <3> QED
      BY <2>1, <3>3, <3>4
  <2>3. CASE ~ \E t \in Threads : pc[t] = "setfield"
    BY <1>2, <2>1, <2>3 DEF ListenerBlocking, IInv, Agree, Busy
  <2> QED
    BY <2>2, <2>3
<1> QED
  BY <1>1, <1>2

LEMMA OneModeAfter == IInv' => ListenerNonblock' = ~ListenerBlocking'
<1>1. (IInv => ListenerNonblock = ~ListenerBlocking)'
  BY OneMode, PTL
<1> QED
  BY <1>1

\* A step that leaves the structure, the queue and the results alone, and is not
\* at either end of setfield, is one that callers do not see.
LEMMA Unseen ==
  ASSUME IInv, IInv', ListenerBlocking' = ListenerBlocking, UNCHANGED <<pending, result>>
  PROVE  UNCHANGED Promise!lvars
<1>1. ListenerNonblock = ~ListenerBlocking
  BY OneMode
<1>2. ListenerNonblock' = ~ListenerBlocking'
  BY OneModeAfter
<1> QED
  BY <1>1, <1>2 DEF Promise!lvars

LEMMA SetModeSeen ==
  ASSUME IInv, IInv', NEW t \in Threads, SetMode(t)
  PROVE  Promise!LNext
<1>1. pc'[t] = "setfield" /\ \A u \in Threads \ {t} : pc'[u] = "idle"
  BY Alone DEF SetMode
<1>2. mode[t] \in BOOLEAN /\ mode' = mode
  BY DEF IInv, TypeOK, SetMode
<1>3. ListenerBlocking' = mode[t]
  BY <1>1, <1>2 DEF ListenerBlocking
<1>4. ListenerNonblock' = ~ListenerBlocking'
  BY OneModeAfter
<1>5. Promise!LSetBlocking(mode[t])
  BY <1>3, <1>4 DEF Promise!LSetBlocking, SetMode
<1> QED
  BY <1>2, <1>5 DEF Promise!LNext

LEMMA AcceptSeen ==
  ASSUME IInv, IInv', NEW t \in Threads, Accept(t)
  PROVE  Promise!LNext
<1>1. pc[t] = "accept" /\ pc'[t] = "restore" /\ nonblock
  BY AcceptKeeps DEF IInv, Agree
<1>2. \A u \in Threads \ {t} : pc[u] = "idle" /\ pc'[u] = "idle"
  BY <1>1 DEF IInv, OneCall
<1>3. ListenerBlocking' = ListenerBlocking
  BY <1>1, <1>2 DEF ListenerBlocking, Accept
<1>4. ListenerNonblock' = ListenerNonblock
  <2>1. ListenerNonblock = ~ListenerBlocking
    BY OneMode
  <2>2. ListenerNonblock' = ~ListenerBlocking'
    BY OneModeAfter
  <2> QED
    BY <1>3, <2>1, <2>2
<1>5. Promise!LAccept(t)
  <2>1. \/ /\ pending > 0 /\ pending' = pending - 1
           /\ result' = [result EXCEPT ![t] = 0]
        \/ /\ pending' = pending
           /\ result' = [result EXCEPT ![t] = -1]
    BY <1>1 DEF Accept
  <2> QED
    BY <1>3, <1>4, <2>1 DEF Promise!LAccept
<1> QED
  BY <1>5 DEF Promise!LNext

LEMMA StepRefines ==
  ASSUME Serialised
  PROVE  IInv /\ [Next]_vars => [Promise!LNext]_(Promise!lvars)
<1> SUFFICES ASSUME IInv, [Next]_vars PROVE [Promise!LNext]_(Promise!lvars)
  OBVIOUS
<1>0. IInv'
  BY NextIInv
<1>1. ASSUME NEW t \in Threads,
             CallAccept(t) \/ CallSetBlocking(t) \/ GetFlags(t) \/ SetNonblocking(t)
             \/ Restore(t)
      PROVE  UNCHANGED Promise!lvars
  <2>1. /\ pc[t] # "setfield" /\ pc'[t] # "setfield" /\ blocking' = blocking
        /\ \A u \in Threads \ {t} : pc[u] # "setfield" /\ pc'[u] # "setfield"
    <3>1. CASE CallAccept(t) \/ CallSetBlocking(t)
      BY <3>1 DEF CallAccept, CallSetBlocking, MayCall, Goto, IInv, TypeOK
    <3>2. CASE GetFlags(t) \/ SetNonblocking(t) \/ Restore(t)
      BY <3>2, Alone DEF GetFlags, SetNonblocking, Restore
    <3> QED
      BY <1>1, <3>1, <3>2
  <2>2. ListenerBlocking' = ListenerBlocking
    BY <2>1 DEF ListenerBlocking
  <2>3. UNCHANGED <<pending, result>>
    BY <1>1 DEF CallAccept, CallSetBlocking, GetFlags, SetNonblocking, Restore
  <2> QED
    BY <1>0, <2>2, <2>3, Unseen
<1>2. ASSUME NEW t \in Threads, SetField(t)
      PROVE  UNCHANGED Promise!lvars
  <2>1. /\ pc[t] = "setfield" /\ pc'[t] = "idle"
        /\ \A u \in Threads \ {t} : pc[u] = "idle" /\ pc'[u] = "idle"
    BY <1>2, Alone DEF SetField
  <2>2. ListenerBlocking = mode[t]
    BY <2>1 DEF ListenerBlocking, IInv, TypeOK
  <2>3. ListenerBlocking' = mode[t]
    BY <1>2, <2>1 DEF ListenerBlocking, SetField
  <2> QED
    BY <1>0, <1>2, <2>2, <2>3, Unseen DEF SetField
<1>3. ASSUME NEW t \in Threads, SetMode(t) PROVE Promise!LNext
  BY <1>0, <1>3, SetModeSeen
<1>4. ASSUME NEW t \in Threads, Accept(t) PROVE Promise!LNext
  BY <1>0, <1>4, AcceptSeen
<1>5. CASE Arrive
  BY <1>5 DEF Arrive, Promise!LNext, Promise!LArrive, ListenerNonblock, ListenerBlocking,
              InAccept, Saved
<1>6. CASE UNCHANGED vars
  BY <1>6 DEF vars, Promise!lvars, ListenerNonblock, ListenerBlocking, InAccept, Saved
<1> QED
  BY <1>1, <1>2, <1>3, <1>4, <1>5, <1>6 DEF Next, Continue

\* With serialised callers, accept and set_blocking are the atomic operations of
\* Listener: what accept does to the flags on its way is never seen.
THEOREM Atomic == ASSUME Serialised PROVE Spec => KeepsPromise
<1>1. Init => Promise!LInit
  <2> SUFFICES ASSUME Init PROVE Promise!LInit
    OBVIOUS
  <2>1. ListenerBlocking = TRUE
    BY DEF Init, ListenerBlocking
  <2>2. ListenerNonblock = FALSE
    BY DEF Init, ListenerNonblock, InAccept
  <2> QED
    BY <2>1, <2>2 DEF Init, Promise!LInit
<1>2. IInv /\ [Next]_vars => [Promise!LNext]_(Promise!lvars)
  BY StepRefines
<1> QED
  BY <1>1, <1>2, Invariant, PTL DEF Spec, KeepsPromise, Promise!LSpec

-----------------------------------------------------------------------------
(* Windows, without callers that serialise: accept restores the mode from  *)
(* the structure, so what another accept is doing does not matter.         *)

WindowsInv ==
  /\ blocking = TRUE /\ nonblock \in BOOLEAN
  /\ pc \in [Threads -> {"idle", "setfl", "accept", "waiting", "restore"}]
  /\ nonblock => \E t \in Threads : InAccept(t)

\* However many accepts of the blocking socket that socket_create made overlap,
\* on Windows the mode is back when all of them have returned.
THEOREM WindowsRestores ==
  ASSUME Windows, Modes = {}
  PROVE  Spec => []ModeRestored
<1>1. Init => WindowsInv
  BY DEF Init, WindowsInv, InAccept
<1>2. WindowsInv /\ [Next]_vars => WindowsInv'
  <2> SUFFICES ASSUME WindowsInv, [Next]_vars PROVE WindowsInv'
    OBVIOUS
  <2> USE DEF WindowsInv, InAccept, Goto
  <2>1. ASSUME NEW t \in Threads, CallAccept(t) PROVE WindowsInv'
    BY <2>1 DEF CallAccept, MayCall
  <2>2. ASSUME NEW t \in Threads, CallSetBlocking(t) PROVE WindowsInv'
    BY <2>2 DEF CallSetBlocking
  <2>3. ASSUME NEW t \in Threads, Continue(t) PROVE WindowsInv'
    <3>1. CASE SetNonblocking(t)
      BY <3>1 DEF SetNonblocking
    <3>2. CASE Accept(t)
      <4>1. /\ blocking' = blocking /\ nonblock' = nonblock
            /\ pc' = [pc EXCEPT ![t] = "restore"] \/ pc' = [pc EXCEPT ![t] = "waiting"]
        BY <3>2 DEF Accept
      <4>2. InAccept(t)'
        BY <4>1
      <4> QED BY <4>1, <4>2
    <3>3. CASE Restore(t)
      BY <3>3 DEF Restore, Saved
    <3> QED BY <2>3, <3>1, <3>2, <3>3 DEF Continue, GetFlags, SetMode, SetField
  <2>4. CASE Arrive
    BY <2>4 DEF Arrive
  <2>5. CASE UNCHANGED vars
    BY <2>5 DEF vars
  <2> QED BY <2>1, <2>2, <2>3, <2>4, <2>5 DEF Next
<1>3. WindowsInv => ModeRestored
  BY DEF WindowsInv, ModeRestored, InAccept
<1> QED BY <1>1, <1>2, <1>3, PTL DEF Spec

=============================================================================
