------------------------------ MODULE ModelTeam ------------------------------
(***************************************************************************)
(* model_team.py: doctor probes the providers; run dispatches one role to  *)
(* its provider and accepts the answer.  Two runs of a role share the      *)
(* packet and the answer file: the second may be a retry of one that timed *)
(* out, whose provider can go on behind its back.  The providers, and the  *)
(* operator who edits the packet, are external.                            *)
(***************************************************************************)
EXTENDS Naturals

CONSTANTS MaxPacket,  \* bound on the versions of the packet
          Dispatches  \* the runs

Writers == {"chatgpt", "ox", "antigravity"}
Roles   == Writers \cup {"qwen", "perplexity", "fable"}
Browser == {"chatgpt", "perplexity"} \* their driver writes the answer file itself

VARIABLES
  role, request, \* [primary, kind, critical, complete]: of both runs
  lane,     \* "missing", "failing", "no model", "ready": the provider of the role
  packet,   \* version of the prompt file
  out,      \* the answer file: {} or {[run, packet, genuine]}
  metadata, \* the metadata file: {} or the answer it describes
  verdict,  \* what doctor printed, until the first dispatch: [overall, status, lane]
  dispatch, \* run -> [at, asked, process, meta, hashed]
  accepted  \* history: runs whose answer was accepted -> the answer

teamVars == <<role, request, lane, packet, out, metadata, verdict, dispatch, accepted>>



Silent == [overall |-> "none", status |-> "none", lane |-> "none"]

TeamInit ==
  /\ role \in Roles
  /\ request \in [primary : {FALSE}, kind : {"code", "design"}, critical : {role = "fable"},
                  complete : {TRUE}] \cup
                 {[primary |-> TRUE, kind |-> "code", critical |-> FALSE, complete |-> TRUE],
                  [primary |-> FALSE, kind |-> "design", critical |-> FALSE, complete |-> FALSE]}
  /\ lane \in {"missing", "failing", "no model", "ready"}
  /\ packet = 0 /\ out = {} /\ metadata = {}
  /\ verdict = [Silent EXCEPT !.lane = lane]
  /\ dispatch = [r \in Dispatches |->
              [at |-> "idle", asked |-> 0, process |-> "none", meta |-> {}, hashed |-> {}]]
  /\ accepted = {}

-------------------------------------------------------------------------------
(* Doctor *)

\* The probes: shallow ones verify nothing, fable is never called by a probe.
BrowserStatus(deep) == CASE lane = "missing" -> "BLOCKED_NOT_FOUND"
                         [] ~deep -> "UNVERIFIED"
                         [] lane = "failing" -> "BLOCKED_PROBE_FAILED"
                         [] OTHER -> "READY"
CliStatus(deep) == CASE lane = "missing" -> "BLOCKED_NOT_FOUND"
                     [] ~deep -> "UNVERIFIED"
                     [] lane = "failing" -> "BLOCKED_PROBE_FAILED"
                     [] lane = "no model" -> "BLOCKED_MODEL_MISSING"
                     [] OTHER -> "READY"
QwenStatus(deep) == CASE ~deep -> "UNVERIFIED"
                      [] lane \in {"missing", "failing"} -> "BLOCKED_OFFLINE"
                      [] lane = "no model" -> "BLOCKED_MODEL_MISSING"
                      [] OTHER -> "READY"
FableStatus == CASE lane = "missing" -> "BLOCKED_NOT_FOUND"
                 [] lane = "failing" -> "BLOCKED_PROBE_FAILED"
                 [] OTHER -> "JIT_CRITICAL_ONLY"

LaneStatus(deep) == CASE role = "qwen" -> QwenStatus(deep)
                      [] role = "fable" -> FableStatus
                      [] role \in Browser -> BrowserStatus(deep)
                      [] OTHER -> CliStatus(deep)

\* The lane of the role is probed; the other primary writers are all ready or not.
Doctor ==
  /\ verdict.overall = "none" /\ \A r \in Dispatches : dispatch[r].at = "idle"
  /\ \E deep, core, others \in BOOLEAN :
       LET status  == LaneStatus(deep)
           ready   == (IF status = "READY" THEN {role} ELSE {}) \cup
                      (IF deep /\ others THEN Writers \ {role} ELSE {})
           overall == CASE core /\ Writers \subseteq ready -> "READY"
                        [] core /\ ready \cap Writers # {} -> "DEGRADED"
                        [] OTHER -> "BLOCKED"
       IN verdict' = [overall |-> overall, status |-> status, lane |-> lane]
  /\ UNCHANGED <<role, request, lane, packet, out, metadata, dispatch, accepted>>

-------------------------------------------------------------------------------
(* Dispatch *)

Set(r, d) == dispatch' = [dispatch EXCEPT ![r] = d]
Apart == UNCHANGED <<role, request, lane, packet, verdict>>

\* Writers work in a worktree of their own; so does perplexity when it codes.
Misplaced  == request.primary /\ (role \in Writers \/ (role = "perplexity" /\ request.kind = "code"))
NotForFable == role = "fable" /\ (~request.critical \/ request.kind # "design")
\* complete: --target-file, --provider-model, the markers of a rendered packet.
Incomplete == role \in Browser /\ ~request.complete
Unavailable == lane = "missing" \/ (role = "qwen" /\ lane \in {"failing", "no model"})

\* run_role refuses before it starts anything.
Refused == Misplaced \/ NotForFable \/ Incomplete \/ Unavailable

Dispatch(r) ==
  /\ dispatch[r].at = "idle" /\ verdict' = Silent
  /\ IF Refused THEN Set(r, [dispatch[r] EXCEPT !.at = "refused"])
     ELSE Set(r, [dispatch[r] EXCEPT !.at = "waiting", !.asked = packet, !.process = "working"])
  /\ UNCHANGED <<role, request, lane, packet, out, metadata, accepted>>

\* The driver in the browser reads the packet when it gets there, writes the
\* answer, then the manifest that describes it.
DriverAnswers(r) ==
  /\ role \in Browser /\ dispatch[r].process = "working"
  /\ \E v \in dispatch[r].asked .. packet, genuine \in {lane # "no model", FALSE} :
       out' = {[run |-> r, packet |-> v, genuine |-> genuine]}
  /\ Set(r, [dispatch[r] EXCEPT !.process = IF role = "perplexity" THEN "answered" ELSE "ended"])
  /\ Apart /\ UNCHANGED <<metadata, accepted>>

DriverDescribes(r) ==
  /\ dispatch[r].process = "answered" /\ out # {}
  /\ \E a \in out : metadata' = IF a.run = r THEN {a} ELSE metadata
  /\ Set(r, [dispatch[r] EXCEPT !.process = "ended"]) /\ Apart /\ UNCHANGED <<out, accepted>>

\* _capture gives up; what the driver started goes on.
GivesUp(r) ==
  /\ dispatch[r].at = "waiting" /\ Set(r, [dispatch[r] EXCEPT !.at = "failed"])
  /\ Apart /\ UNCHANGED <<out, metadata, accepted>>

\* Exit code 0 or another; the child may be gone without having answered.
Exits(r) ==
  /\ dispatch[r].at = "waiting" /\ role \in Browser
  /\ \E ending \in {"exited", "failed"} :
       Set(r, [dispatch[r] EXCEPT !.at = ending, !.process = "ended"])
  /\ Apart /\ UNCHANGED <<out, metadata, accepted>>

\* _validate_antigravity_output, _validate_fable_output and _qwen_ask prove the
\* model; what ox prints is taken as it comes.
Proven(genuine) == genuine \/ role = "ox"

Accept(r, a) == accepted' = accepted \cup {[by |-> r, answer |-> a, latest |-> packet]}

\* The other providers print the answer; the dispatcher writes the file.
Prints(r) ==
  /\ dispatch[r].at = "waiting" /\ role \notin Browser /\ UNCHANGED metadata /\ Apart
  /\ \E genuine \in {lane # "no model", FALSE}, complete \in BOOLEAN :
       LET a == [run |-> r, packet |-> dispatch[r].asked, genuine |-> genuine]
       IN IF lane # "failing" /\ complete /\ Proven(genuine)
          THEN /\ out' = {a} /\ Accept(r, a)
               /\ Set(r, [dispatch[r] EXCEPT !.at = "done", !.process = "ended"])
          ELSE /\ Set(r, [dispatch[r] EXCEPT !.at = "failed", !.process = "ended"])
               /\ UNCHANGED <<out, accepted>>

\* chatgpt: some answer file is there.
FindsAnswer(r) ==
  /\ role = "chatgpt" /\ dispatch[r].at = "exited" /\ Apart /\ UNCHANGED metadata
  /\ IF out = {} THEN Set(r, [dispatch[r] EXCEPT !.at = "failed"]) /\ UNCHANGED <<out, accepted>>
     ELSE \E a \in out : Set(r, [dispatch[r] EXCEPT !.at = "done"]) /\ Accept(r, a) /\ UNCHANGED out

\* perplexity: the manifest, the answer's hash, the packet's hash, one after another.
ReadManifest(r) ==
  /\ role = "perplexity" /\ dispatch[r].at = "exited" /\ Apart /\ UNCHANGED <<out, metadata, accepted>>
  /\ IF out = {} \/ metadata = {} THEN Set(r, [dispatch[r] EXCEPT !.at = "failed"])
     ELSE Set(r, [dispatch[r] EXCEPT !.at = "manifest", !.meta = metadata])

HashAnswer(r) ==
  /\ dispatch[r].at = "manifest" /\ Apart /\ UNCHANGED <<out, metadata, accepted>>
  /\ Set(r, [dispatch[r] EXCEPT !.at = "hashed", !.hashed = out])

FaultyContract(meta, reply, now) == \E m \in meta : m.genuine /\ {m} = reply

\* _validate_coderpx_result.
Contract(meta, reply, now) == \E m \in meta : m.genuine /\ {m} = reply /\ m.packet = now

Validate(r) ==
  /\ dispatch[r].at = "hashed" /\ Apart /\ UNCHANGED <<out, metadata>>
  /\ IF Contract(dispatch[r].meta, dispatch[r].hashed, packet)
     THEN \E a \in dispatch[r].hashed : Set(r, [dispatch[r] EXCEPT !.at = "done"]) /\ Accept(r, a)
     ELSE Set(r, [dispatch[r] EXCEPT !.at = "failed"]) /\ UNCHANGED accepted

-------------------------------------------------------------------------------

EditPacket == /\ packet < MaxPacket /\ packet' = packet + 1
              /\ UNCHANGED <<role, request, lane, out, metadata, verdict, dispatch, accepted>>
LaneChanges == /\ verdict.overall # "none" /\ verdict.lane = lane
               /\ lane' \in {"missing", "ready"} \ {lane}
               /\ UNCHANGED <<role, request, packet, out, metadata, verdict, dispatch, accepted>>

TeamNext == \/ Doctor \/ EditPacket \/ LaneChanges
            \/ \E r \in Dispatches :
                 \/ Dispatch(r) \/ GivesUp(r) \/ Exits(r) \/ Prints(r) \/ FindsAnswer(r)
                 \/ DriverAnswers(r) \/ DriverDescribes(r)
                 \/ ReadManifest(r) \/ HashAnswer(r) \/ Validate(r)

-------------------------------------------------------------------------------
(* Properties *)

\* What a run accepts was asked of it: the answer is from the model it names and
\* to a packet the file held while the run was under way, also when the provider
\* of an earlier run that timed out answers late into the same file, and the
\* packet was edited in between.  (Nothing proves the model of ox, and chatgpt
\* takes any file it finds.)
AnswersWhatWasAsked ==
  \A m \in accepted :
    /\ role \notin {"ox", "chatgpt"} => m.answer.genuine
    /\ role # "chatgpt" => m.answer.packet \in dispatch[m.by].asked .. m.latest

===============================================================================
