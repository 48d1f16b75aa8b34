------------------------ MODULE SessionVerdictProofs ------------------------
(***************************************************************************)
(* Theorems about SessionVerdict, for any set of processes and any bounds. *)
(*                                                                         *)
(* Whoever is inside holds the lock as long as no lock has expired         *)
(* (Held): that is mutual exclusion.  What a process is about to write is  *)
(* then the file as it is, with one stamp more, unless the session has     *)
(* ended again in between (Payload, Current).                              *)
(***************************************************************************)
EXTENDS SessionVerdict, TLAPS

\* What a process is about to write carries its own stamp on the verdict it wants.
Payload(c) ==
    call[c].at = "write" =>
        /\ call[c].payload.created <= ends
        /\ call[c].op = "consume" =>
               /\ call[c].payload.consumed = c
               /\ call[c].payload.created = call[c].expected
        /\ call[c].op = "surface" => call[c].payload.consumed = Nobody

\* Until a lock expires, whoever is inside holds it, and nobody is about to steal.
Held(c) ==
    expired = {} =>
        /\ call[c].at # "steal"
        /\ Inside(c) => lock.owner = c

\* ... and what it is about to write is the file, stamped where it had no stamp.
Current(c) ==
    expired = {} /\ call[c].at = "write" /\ call[c].payload.created = file.created =>
        \/ /\ file.surfaced = Nobody
           /\ call[c].payload = [file EXCEPT !.surfaced = c]
        \/ /\ file.consumed = Nobody
           /\ call[c].payload = [file EXCEPT !.consumed = c]

Inv ==
    /\ TypeOK
    /\ file.created <= ends
    /\ lock.stale => expired # {}
    /\ \A c \in Client : Payload(c) /\ Held(c) /\ Current(c)

----------------------------------------------------------------------------
LEMMA IdleIsCall == Idle \in Call
  BY VerdictAssumption DEF Idle, Call, Step, Fresh, Verdict, Stamp

LEMMA FreeIsLock == Free \in Lock /\ Free.owner = Nobody /\ Free.stale = FALSE
  BY DEF Free, Lock

\* The type is inductive by itself.
LEMMA TypesStep == TypeOK /\ [Next]_vars => TypeOK'
<1> SUFFICES ASSUME TypeOK, [Next]_vars PROVE TypeOK'
  OBVIOUS
<1> USE VerdictAssumption DEF TypeOK
<1>1. CASE SessionEnd
  BY <1>1 DEF SessionEnd, Fresh, Verdict, Stamp
<1>2. CASE GoesStale
  BY <1>2 DEF GoesStale, Lock
<1>3. ASSUME NEW c \in Client, Surface(c) \/ Render(c) \/ Continue(c) \/ Kill(c)
      PROVE  TypeOK'
  <2>1. CASE Surface(c)
    BY <2>1 DEF Surface, Goto, Call, Step
  <2>2. CASE Render(c)
    BY <2>2, IdleIsCall DEF Render, Call, Step, Verdict
  <2>3. CASE Expect(c)
    BY <2>3, IdleIsCall DEF Expect, Goto, Return, Call, Step
  <2>4. CASE Acquire(c)
    BY <2>4 DEF Acquire, Goto, Call, Step, Lock
  <2>5. CASE FindStale(c)
    BY <2>5 DEF FindStale, Goto, Call, Step
  <2>6. CASE Steal(c)
    BY <2>6, FreeIsLock DEF Steal, Goto, Call, Step
  <2>7. CASE GiveUp(c)
    BY <2>7, IdleIsCall DEF GiveUp, Return
  <2>8. CASE Read(c)
    <3>1. Stamped(c) \in Verdict
      BY DEF Stamped, Verdict, Stamp
    <3> QED
      BY <2>8, <3>1 DEF Read, Goto, Call, Step
  <2>9. CASE Write(c)
    BY <2>9 DEF Write, Goto, Call, Step
  <2>10. CASE Release(c)
    BY <2>10, IdleIsCall DEF Release, Goto, Return, Call, Step
  <2>11. CASE Unlink(c)
    BY <2>11, IdleIsCall, FreeIsLock DEF Unlink, Return
  <2>12. CASE Kill(c)
    BY <2>12, IdleIsCall DEF Kill, Return, Lock
  <2> QED
    BY <1>3, <2>1, <2>2, <2>3, <2>4, <2>5, <2>6, <2>7, <2>8, <2>9, <2>10, <2>11, <2>12
       DEF Continue
<1>4. CASE UNCHANGED vars
  BY <1>4 DEF vars
<1> QED
  BY <1>1, <1>2, <1>3, <1>4 DEF Next

----------------------------------------------------------------------------
(* What a step changes                                                     *)

\* A step of a process that does not write leaves the verdict alone.
LEMMA FileKept ==
    ASSUME NEW c \in Client, Surface(c) \/ Render(c) \/ Continue(c) \/ Kill(c), ~Write(c)
    PROVE  UNCHANGED <<file, ends>>
  BY DEF Surface, Render, Continue, Kill, Expect, Acquire, FindStale, Steal, GiveUp,
         Read, Release, Unlink

\* A step of a process leaves the calls of the others alone.
LEMMA OthersKept ==
    ASSUME TypeOK, NEW c \in Client,
           Surface(c) \/ Render(c) \/ Continue(c) \/ Kill(c)
    PROVE  /\ \A d \in Client \ {c} : call'[d] = call[d]
           /\ UNCHANGED expired
           /\ call'[c] \in Call
  <1>1. call'[c] \in Call /\ UNCHANGED expired
    <2>1. TypeOK'
      BY TypesStep DEF Next
    <2> QED
      BY <2>1 DEF TypeOK, Surface, Render, Continue, Kill, Expect, Acquire, FindStale,
                  Steal, GiveUp, Read, Write, Release, Unlink
  <1>2. \E k \in Call : call' = [call EXCEPT ![c] = k]
    BY <1>1 DEF TypeOK, Surface, Render, Continue, Kill, Expect, Acquire, FindStale,
                Steal, GiveUp, Read, Write, Release, Unlink, Goto, Return
  <1> QED
    BY <1>1, <1>2 DEF TypeOK

\* A process that is about to write has either just read or been so before.
LEMMA OnlyReadersWrite ==
    ASSUME TypeOK, NEW c \in Client,
           Surface(c) \/ Render(c) \/ Continue(c) \/ Kill(c),
           call'[c].at = "write"
    PROVE  Read(c) /\ call'[c].payload = Stamped(c)
           /\ call'[c].op = call[c].op /\ call'[c].expected = call[c].expected
           /\ Wanted(c) /\ (call[c].op = "surface" => file.surfaced = Nobody)
  <1>1. Idle.at # "write"
    BY DEF Idle
  <1>2. ~Surface(c) /\ ~Expect(c) /\ ~Acquire(c) /\ ~FindStale(c) /\ ~Steal(c)
        /\ ~Write(c) /\ ~Release(c)
    BY <1>1 DEF TypeOK, Call, Surface, Expect, Acquire, FindStale, Steal, Write, Release,
                Goto, Return
  <1>3. ~Render(c) /\ ~GiveUp(c) /\ ~Unlink(c) /\ ~Kill(c)
    BY <1>1 DEF TypeOK, Render, GiveUp, Unlink, Kill, Return, Idle
  <1>4. Read(c)
    BY <1>2, <1>3 DEF Continue
  <1> QED
    BY <1>4 DEF Read, Goto, TypeOK, Call

\* The lock changes hands as the protocol says.
LEMMA LockSteps ==
    ASSUME TypeOK, NEW c \in Client,
           Surface(c) \/ Render(c) \/ Continue(c) \/ Kill(c)
    PROVE  \/ UNCHANGED lock
           \/ lock.owner = Nobody /\ lock'.owner = c /\ lock'.stale = FALSE
           \/ /\ call[c].at \in {"steal", "unlink"} \/ lock.owner = c
              /\ lock'.stale => lock.stale
  BY FreeIsLock DEF TypeOK, Lock, Surface, Render, Continue, Kill, Expect, Acquire,
                    FindStale, Steal, GiveUp, Read, Write, Release, Unlink

\* A process gets inside by acquiring the lock, and stays there.
LEMMA InsideSteps ==
    ASSUME TypeOK, NEW c \in Client,
           Surface(c) \/ Render(c) \/ Continue(c) \/ Kill(c)
    PROVE  /\ call'[c].at = "steal" => lock.stale
           /\ Inside(c)' => \/ lock'.owner = c
                            \/ Inside(c) /\ UNCHANGED lock
  <1> USE DEF TypeOK, Call, Inside, Goto, Return, Idle
  <1>1. CASE Surface(c) \/ Render(c)
    BY <1>1 DEF Surface, Render
  <1>2. CASE Expect(c) \/ Acquire(c) \/ FindStale(c)
    BY <1>2 DEF Expect, Acquire, FindStale
  <1>3. CASE Steal(c) \/ GiveUp(c)
    BY <1>3 DEF Steal, GiveUp
  <1>4. CASE Read(c)
    BY <1>4 DEF Read
  <1>5. CASE Write(c)
    BY <1>5 DEF Write
  <1>6. CASE Release(c) \/ Unlink(c) \/ Kill(c)
    BY <1>6 DEF Release, Unlink, Kill
  <1> QED
    BY <1>1, <1>2, <1>3, <1>4, <1>5, <1>6 DEF Continue

----------------------------------------------------------------------------
(* The invariant                                                           *)

\* A process's own step, and its part of the invariant.
LEMMA OwnStep ==
    ASSUME Inv, NEW c \in Client,
           Surface(c) \/ Render(c) \/ Continue(c) \/ Kill(c)
    PROVE  Payload(c)' /\ Held(c)' /\ Current(c)'
  <1>1. TypeOK /\ UNCHANGED expired
    BY OthersKept DEF Inv
  <1>2. Held(c)'
    BY <1>1, InsideSteps DEF Inv, Held
  <1>3. ASSUME call'[c].at = "write" PROVE Payload(c)' /\ Current(c)'
    <2>1. /\ Read(c) /\ call'[c].payload = Stamped(c)
          /\ call'[c].op = call[c].op /\ call'[c].expected = call[c].expected
          /\ Wanted(c) /\ (call[c].op = "surface" => file.surfaced = Nobody)
      BY <1>1, <1>3, OnlyReadersWrite
    <2>2. UNCHANGED <<file, ends>> /\ call[c].op \in {"surface", "consume"}
      BY <1>1, <2>1 DEF Read, TypeOK, Call
    <2>3. file.created <= ends /\ file \in Verdict
      BY DEF Inv, TypeOK
    <2>4. Payload(c)'
      BY <2>1, <2>2, <2>3 DEF Payload, Stamped, Wanted, Pending, Verdict
    <2>5. Current(c)'
      BY <2>1, <2>2, <2>3 DEF Current, Stamped, Wanted, Pending, Verdict
    <2> QED
      BY <2>4, <2>5
  <1> QED
    BY <1>2, <1>3 DEF Payload, Current

\* Another process's step, and the part of the invariant it must not disturb.
LEMMA OthersStep ==
    ASSUME Inv, NEW c \in Client, NEW d \in Client \ {c},
           Surface(c) \/ Render(c) \/ Continue(c) \/ Kill(c)
    PROVE  Payload(d)' /\ Held(d)' /\ Current(d)'
  <1>1. TypeOK /\ UNCHANGED <<expired, ends>> /\ call'[d] = call[d]
    <2>1. UNCHANGED ends
      BY FileKept DEF Write
    <2> QED
      BY <2>1, OthersKept DEF Inv
  <1>2. Payload(d)'
    BY <1>1 DEF Inv, Payload
  <1>3. ASSUME expired = {}, Inside(d) PROVE lock.owner = d /\ ~Inside(c) /\ lock'.owner = d
    <2>1. lock.owner = d /\ call[c].at # "steal" /\ ~Inside(c)
      BY <1>3 DEF Inv, Held
    <2>2. call[c].at # "unlink" /\ d # Nobody /\ lock.owner # c
      BY <2>1, VerdictAssumption DEF Inside
    <2> QED
      BY <1>1, <2>1, <2>2, LockSteps
  <1>4. Held(d)'
    BY <1>1, <1>3 DEF Inv, Held, Inside
  <1>5. ASSUME expired = {}, call[d].at = "write" PROVE UNCHANGED file
    <2>1. ~Inside(c)
      BY <1>3, <1>5 DEF Inside
    <2> QED
      BY <2>1, FileKept DEF Write, Inside
  <1>6. Current(d)'
    BY <1>1, <1>5 DEF Inv, Current
  <1> QED
    BY <1>2, <1>4, <1>6

LEMMA InvStep == Inv /\ [Next]_vars => Inv'
<1> SUFFICES ASSUME Inv, [Next]_vars PROVE Inv'
  OBVIOUS
<1>1. TypeOK /\ TypeOK'
  BY TypesStep DEF Inv
<1>2. CASE SessionEnd
  <2>1. UNCHANGED <<lock, call, expired>> /\ ends' = ends + 1 /\ file'.created = ends + 1
    BY <1>2 DEF SessionEnd, Fresh
  <2>2. ends \in Nat
    BY <1>1, VerdictAssumption DEF TypeOK
  <2>3. ASSUME NEW c \in Client PROVE Payload(c)' /\ Held(c)' /\ Current(c)'
    <3>1. call[c].payload.created \in Nat
      BY <1>1, VerdictAssumption DEF TypeOK, Call, Verdict
    <3>2. Payload(c)' /\ (call[c].at = "write" => call[c].payload.created <= ends)
      BY <2>1, <2>2, <3>1 DEF Inv, Payload
    <3>3. Held(c)'
      BY <2>1 DEF Inv, Held, Inside
    <3>4. Current(c)'
      BY <2>1, <2>2, <3>1, <3>2 DEF Current
    <3> QED
      BY <3>2, <3>3, <3>4
  <2> QED
    BY <1>1, <2>1, <2>2, <2>3 DEF Inv
<1>3. CASE GoesStale
  <2>1. UNCHANGED <<file, call, ends>> /\ expired' # {}
    BY <1>3 DEF GoesStale
  <2> QED
    BY <1>1, <2>1 DEF Inv, Payload, Held, Current
<1>4. ASSUME NEW c \in Client, Surface(c) \/ Render(c) \/ Continue(c) \/ Kill(c)
      PROVE  Inv'
  <2>1. \A d \in Client : Payload(d)' /\ Held(d)' /\ Current(d)'
    BY <1>4, OwnStep, OthersStep
  <2>2. lock'.stale => expired' # {}
    BY <1>1, <1>4, LockSteps, OthersKept DEF Inv
  <2>3. file'.created <= ends'
    <3>1. CASE Write(c)
      BY <3>1 DEF Write, Inv, Payload
    <3>2. CASE ~Write(c)
      BY <1>4, <3>2, FileKept DEF Inv
    <3> QED
      BY <3>1, <3>2
  <2> QED
    BY <1>1, <2>1, <2>2, <2>3 DEF Inv
<1>5. CASE UNCHANGED vars
  BY <1>1, <1>5 DEF vars, Inv, Payload, Held, Current, Inside
<1> QED
  BY <1>2, <1>3, <1>4, <1>5 DEF Next

\* Mutual exclusion until a lock expires, and what each process is about to write,
\* hold in every state (_verdict_lock and its two users).
THEOREM InvCorrect == Spec => []Inv
<1>1. Init => Inv
  BY VerdictAssumption, IdleIsCall, FreeIsLock
     DEF Init, Inv, TypeOK, Fresh, Verdict, Stamp, Payload, Held, Current, Inside, Idle
<1> QED
  BY <1>1, InvStep, PTL DEF Spec

----------------------------------------------------------------------------
(* What follows                                                            *)

\* Every state is of its type.
THEOREM TypeCorrect == Spec => []TypeOK
  BY InvCorrect, PTL DEF Inv

\* Until a lock expires one process at a time is inside the read-modify-write cycle
\* of _verdict_lock, however many are killed there.
THEOREM LockCorrect == Spec => []OneInside
<1>1. Inv => OneInside
  BY DEF Inv, Held, OneInside
<1> QED
  BY <1>1, InvCorrect, PTL

\* Only a write and a SessionEnd change the verdict.
LEMMA WriteSteps ==
    ASSUME [Next]_vars
    PROVE  UNCHANGED file \/ SessionEnd \/ \E c \in Client : Write(c)
  BY FileKept DEF Next, GoesStale, vars

\* Until a lock expires, consumed_at and surfaced_at are stamped once on a verdict.
THEOREM StampsCorrect == Spec => StampedOnce
<1>1. Inv /\ [Next]_vars => [expired = {} => KeepsStamps]_vars
  <2> SUFFICES ASSUME Inv, [Next]_vars, expired = {}, file'.created = file.created
               PROVE  /\ file.consumed # Nobody => file'.consumed = file.consumed
                      /\ file.surfaced # Nobody => file'.surfaced = file.surfaced
    BY DEF KeepsStamps
  <2>1. ~SessionEnd
    BY VerdictAssumption DEF SessionEnd, Inv, TypeOK, Fresh, Verdict
  <2>2. ASSUME NEW c \in Client, Write(c)
        PROVE  /\ file.consumed # Nobody => file'.consumed = file.consumed
               /\ file.surfaced # Nobody => file'.surfaced = file.surfaced
    BY <2>2 DEF Write, Inv, Current, TypeOK, Verdict
  <2> QED
    BY <2>1, <2>2, WriteSteps
<1> QED
  BY <1>1, InvCorrect, PTL DEF Spec, StampedOnce

\* A curator's stamp goes on the verdict it rendered, locks expiring or not.
THEOREM RenderedCorrect == Spec => ConsumedWasRendered
<1>1. Inv /\ [Next]_vars =>
        [\A c \in Client : file'.consumed = c /\ file.consumed # c
                              => file'.created = call[c].expected]_vars
  <2> SUFFICES ASSUME Inv, [Next]_vars, NEW c \in Client,
                      file'.consumed = c, file.consumed # c
               PROVE  file'.created = call[c].expected
    OBVIOUS
  <2>1. c # Nobody
    BY VerdictAssumption
  <2>2. ~SessionEnd
    BY <2>1 DEF SessionEnd, Fresh
  <2>3. ASSUME NEW d \in Client, Write(d) PROVE file'.created = call[c].expected
    <3>1. call[d].op \in {"surface", "consume"}
      BY DEF Inv, TypeOK, Call
    <3> QED
      BY <2>1, <2>3, <3>1 DEF Write, Inv, Payload
  <2> QED
    BY <2>2, <2>3, WriteSteps
<1> QED
  BY <1>1, InvCorrect, PTL DEF Spec, ConsumedWasRendered
=============================================================================
