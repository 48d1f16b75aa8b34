------------------------- MODULE IdempotentCommands -------------------------
(***************************************************************************)
(* What the conductor promises the sender of a command, whichever process  *)
(* executes it and however often its envelope is read: a command key gets  *)
(* one final answer, the answer never changes, no work is started for a    *)
(* key that has been answered, and success is only answered once the work  *)
(* the command asks for exists.                                            *)
(***************************************************************************)

CONSTANTS Keys,      \* idempotency keys of commands
          Items,     \* the work the commands ask for
          Wants,     \* [Keys -> Items]
          Answers,   \* the possible answers, "SUCCESS" among them
          Unanswered

VARIABLES answer,    \* [Keys -> Answers \cup {Unanswered}]
          work       \* the Items that exist

commandVars == <<answer, work>>

CommandInit == /\ answer = [k \in Keys |-> Unanswered]
               /\ work = {}

\* Work is created on behalf of a key that still waits for its answer.
Perform(k) == /\ answer[k] = Unanswered
              /\ work' = work \cup {Wants[k]}
              /\ UNCHANGED answer

AnswerWith(k, a) == /\ answer[k] = Unanswered
                    /\ a = "SUCCESS" => Wants[k] \in work
                    /\ answer' = [answer EXCEPT ![k] = a]
                    /\ UNCHANGED work

CommandNext == \E k \in Keys : Perform(k) \/ \E a \in Answers : AnswerWith(k, a)

CommandSpec == CommandInit /\ [][CommandNext]_commandVars
=============================================================================
