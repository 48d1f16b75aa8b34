------------------------------- MODULE GatePanel -------------------------------
(***************************************************************************)
(* The operator panel (conductor_gui.py).  A worker thread compares the    *)
(* signature of the store with that of its last read, reads the store when *)
(* it moved, and posts a frame; the UI thread shows the latest message and *)
(* rebuilds its cards only when what they say has changed.  The read is    *)
(* SnapshotRead's, cut down to its answer: a state of the store since the  *)
(* read began, "changed while reading", or an error.                       *)
(***************************************************************************)
EXTENDS Naturals

CONSTANTS MaxVersion,  \* bound on the commits to the store
          MaxFaults,   \* bound on the reads that fail
          NoFrame      \* nothing read, nothing drawn

VARIABLES
  version,  \* the state of the store, numbered by its commits
  worker,   \* "sleep", "look", "read"
  got,      \* the state it is reading
  since,    \* the signature moved since the look the tick began with
  news,     \* the signature differs from _last_sig
  faults, paused,
  frame,    \* _last_frame
  mail,     \* the latest message to the UI: [kind, frame, stale]
  banner, stale, cards,
  drawn,    \* the content the cards were last rebuilt for
  later,    \* the ages written in it are out of date
  ages      \* it holds ages: the gate is held or fenced, not just waited for

workVars  == <<worker, got, since, news, faults, frame>>
uiVars    == <<banner, stale, cards, drawn, later>>
panelVars == <<version, workVars, paused, mail, uiVars, ages>>

NoMail == [kind |-> "none", frame |-> NoFrame, stale |-> FALSE]
Post(kind, f, s) == mail' = [kind |-> kind, frame |-> f, stale |-> s]

PanelInit ==
  /\ version = 0 /\ worker = "sleep" /\ got = NoFrame /\ since = FALSE /\ news = TRUE
  /\ faults = 0 /\ paused = FALSE /\ frame = NoFrame /\ mail = NoMail
  /\ banner = NoFrame /\ stale = FALSE /\ cards = NoFrame /\ drawn = NoFrame
  /\ later = FALSE /\ ages \in BOOLEAN

StoreCommits ==
  /\ version < MaxVersion /\ version' = version + 1 /\ since' = TRUE /\ news' = TRUE
  /\ UNCHANGED <<worker, got, faults, frame, paused, mail, uiVars, ages>>

-------------------------------------------------------------------------------
(* _tick, in the worker *)

\* An unchanged signature posts the last frame again (a step only when the UI has
\* taken the one before).
TickBegins ==
  /\ worker = "sleep" /\ ~paused
  /\ IF news \/ frame = NoFrame
     THEN worker' = "look" /\ since' = FALSE /\ UNCHANGED mail
     ELSE mail.kind = "none" /\ Post("frame", frame, FALSE) /\ UNCHANGED <<worker, since>>
  /\ UNCHANGED <<version, got, news, faults, frame, paused, uiVars, ages>>

ReadsStore == /\ worker = "look" /\ got' = version /\ worker' = "read"
              /\ UNCHANGED <<version, since, news, faults, frame, paused, mail, uiVars, ages>>

FaultyUnseen == FALSE

\* _last_sig becomes the signature the tick began with: what came after is news.
Unseen == since

ReadReturns ==
  /\ worker = "read" /\ worker' = "sleep" /\ got' = NoFrame
  /\ \/ /\ frame' = got /\ news' = Unseen /\ Post("frame", got, FALSE) /\ UNCHANGED faults
     \/ /\ faults < MaxFaults /\ faults' = faults + 1
        /\ Post("frame", frame, TRUE) \/ Post("error", NoFrame, FALSE)
        /\ UNCHANGED <<frame, news>>
  /\ UNCHANGED <<version, since, paused, uiVars, ages>>

-------------------------------------------------------------------------------
(* The UI *)

\* The window is minimised, or shown again.
PausesOrResumes == paused' = ~paused /\ UNCHANGED <<version, workVars, mail, uiVars, ages>>

ShowsFrame ==
  /\ mail.kind = "frame" /\ mail' = NoMail
  /\ IF mail.frame = NoFrame THEN UNCHANGED uiVars
     ELSE /\ banner' = mail.frame /\ stale' = mail.stale
          /\ IF mail.frame # drawn \/ later
             THEN cards' = mail.frame /\ drawn' = mail.frame /\ later' = FALSE
             ELSE UNCHANGED <<cards, drawn, later>>
  /\ UNCHANGED <<version, workVars, paused, ages>>

\* apply_degraded: the cards go; what they were drawn for is not forgotten.
ShowsError ==
  /\ mail.kind = "error" /\ mail' = NoMail
  /\ banner' = NoFrame /\ cards' = NoFrame
  /\ UNCHANGED <<version, workVars, paused, stale, drawn, later, ages>>

MinutePasses ==
  /\ ages /\ drawn # NoFrame /\ ~later /\ later' = TRUE
  /\ UNCHANGED <<version, workVars, paused, mail, banner, stale, cards, drawn, ages>>

\* recover_request, accepted: a commit, a forced redraw, and the worker runs on
\* even when it was paused.
RecoverPressed ==
  /\ cards # NoFrame /\ version < MaxVersion /\ version' = version + 1
  /\ since' = TRUE /\ news' = TRUE /\ drawn' = NoFrame /\ later' = FALSE /\ paused' = FALSE
  /\ UNCHANGED <<worker, got, faults, frame, mail, banner, stale, cards, ages>>

Worker == TickBegins \/ ReadsStore \/ ReadReturns
Ui     == ShowsFrame \/ ShowsError

PanelNext == StoreCommits \/ PausesOrResumes \/ Worker \/ Ui \/ MinutePasses \/ RecoverPressed

\* Both threads loop, and time passes.
PanelFairness == WF_panelVars(Worker) /\ WF_panelVars(Ui) /\ WF_panelVars(MinutePasses)

-------------------------------------------------------------------------------
(* Properties *)

\* Once the store is quiet a panel that stays open ends up showing it: no commit is lost
\* between a look and the read, no error banner and no stale mark stays.  The one
\* loss is the queue of a gate nobody holds, which an error hides and no age
\* brings back.
PanelCatchesUp ==
  <>[](~paused) =>
    <>[](/\ banner = version /\ ~stale
         /\ cards = version \/ (cards = NoFrame /\ ~ages /\ faults > 0))
===============================================================================
