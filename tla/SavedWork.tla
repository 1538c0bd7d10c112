----------------------------- MODULE SavedWork -----------------------------
(***************************************************************************)
(* The draft of one form: ui/saved-work-controller.ts and                  *)
(* ui/use-saved-work.ts in the browser, workflow/wip.ts on the server.     *)
(*                                                                         *)
(* Every open form of one scope (a tab, or the same page opened again) has *)
(* a controller of its own. All of them share one backup in localStorage   *)
(* and one server row, which is replaced under an optimistic version. A    *)
(* save may be answered late, never, or after its form was closed.         *)
(*                                                                         *)
(* A draft is its text and the record version it was written against       *)
(* (`_recordVersion`). The field `reviewed` is history: the record version *)
(* on screen when the text was begun or acknowledged.                      *)
(***************************************************************************)
EXTENDS Naturals, Sequences, FiniteSets

CONSTANTS
    Panels,      \* controllers that may be alive at once
    Texts,       \* what a user may type
    Initial,     \* the text the record itself holds
    MaxChanges,  \* bound on edits, acknowledgements and recorded actions
    MaxRecord,   \* bound on the version of the record the form is about
    MaxFaults    \* bound on lost answers and on tabs that die

ASSUME BoundsAssumption ==
    /\ Initial \in Texts
    /\ MaxChanges \in Nat /\ MaxRecord \in Nat \ {0} /\ MaxFaults \in Nat

VARIABLES
    saved,       \* every draft the server accepted; the row is the last one
    backup,      \* localStorage
    record,      \* version of the record the form is about
    panel,       \* the controllers
    delayed,     \* saves nobody waits for that may still reach the server
    lastChanged, \* history: the text of the latest change in any form
    changes, faults

vars == <<saved, backup, record, panel, delayed, lastChanged, changes, faults>>

Versions == Nat

Draft == [text : Texts, token : 1..MaxRecord, reviewed : 1..MaxRecord]

Save == [draft : Draft, expected : Versions, base : Versions]

Backup == [draft : Draft, unsent : BOOLEAN, rowVersion : Versions, base : Versions]

Statuses == {"loading", "idle", "loaded", "recovered", "saving", "queued",
             "saved", "conflict", "failed"}

(* `base` is history: the version of the row this draft grew out of, or    *)
(* the one its user chose to replace.                                      *)
Controller ==
    [life : {"closed", "mounted", "left"}, ready : BOOLEAN, draft : Draft,
     rowVersion : Versions, base : Versions,
     sequence : Versions, savedSequence : Versions,
     queue : 0..2, timer : BOOLEAN, status : Statuses, onScreen : 1..MaxRecord,
     load : {"none", "asked", "answered"}, replace : {"none", "asked", "answered"},
     answer : Versions,
     post : {"none", "sent", "accepted", "refused"},
     sent : Save, sentSequence : Versions]

RowVersion == Len(saved)

Fresh(token) == [text |-> Initial, token |-> token, reviewed |-> token]

createController ==
    [life |-> "mounted", ready |-> FALSE, draft |-> Fresh(record),
     rowVersion |-> 0, base |-> 0, sequence |-> 0, savedSequence |-> 0,
     queue |-> 0, timer |-> FALSE, status |-> "loading",
     onScreen |-> record, load |-> "asked", replace |-> "none", answer |-> 0,
     post |-> "none",
     sent |-> [draft |-> Fresh(1), expected |-> 0, base |-> 0],
     sentSequence |-> 0]

Closed == [createController EXCEPT !.life = "closed", !.load = "none",
           !.draft = Fresh(1), !.onScreen = 1]

Init ==
    /\ record = 1
    /\ saved = <<>> /\ backup = {} /\ delayed = {}
    /\ panel = [p \in Panels |-> Closed]
    /\ lastChanged = Initial
    /\ changes = 0 /\ faults = 0

(* What JSON.stringify compares: the entries, not the history.             *)
SameValues(a, b) == a.text = b.text /\ a.token = b.token

keepBackup(c, unsent) ==
    {[draft |-> c.draft, unsent |-> unsent, rowVersion |-> c.rowVersion, base |-> c.base]}

\* Mutant: a late response overwrites whatever the backup holds.
confirmBackupAlways(c, unsent) == keepBackup(c, unsent)

(* A late response must not replace edits made after the form reopened.    *)
confirmBackup(c, unsent) ==
    IF \E b \in backup : SameValues(b.draft, c.draft)
    THEN keepBackup(c, unsent) ELSE backup

Dirty(c) == c.sequence # c.savedSequence

Idle(c) == c.queue = 0 /\ c.post = "none"

CanChange == changes < MaxChanges

Enqueued(c) == [c EXCEPT !.timer = FALSE, !.queue = @ + 1]

\* Mutant: the token follows the record whatever was typed.
TokenAlwaysRefreshed(c) == IF c.ready THEN [c EXCEPT !.draft.token = c.onScreen] ELSE c

(* The token follows the record only while the entries are the record's.   *)
TokenRefreshed(c) ==
    IF c.ready /\ c.draft.text = Initial
    THEN [c EXCEPT !.draft.token = c.onScreen, !.draft.reviewed = c.onScreen] ELSE c

(* ... and this panel's own backup follows with it.                        *)
RefreshedBackup(c) ==
    IF \E b \in backup : b.rowVersion = c.rowVersion /\ SameValues(b.draft, c.draft)
    THEN keepBackup(TokenRefreshed(c), \E b \in backup : b.unsent) ELSE backup
-----------------------------------------------------------------------------
(* The head of the chain runs as soon as the save before it has ended: it  *)
(* finds nothing to send, or sends the entries of now (persist).           *)
Persisted(c) ==
    IF c.queue = 0 \/ c.post # "none" THEN c
    ELSE IF ~c.ready \/ ~Dirty(c) THEN [c EXCEPT !.queue = 0]
    ELSE [c EXCEPT !.queue = @ - 1, !.post = "sent", !.sentSequence = c.sequence,
                   !.status = IF c.life = "mounted" THEN "saving" ELSE @,
                   !.sent = [draft |-> c.draft, expected |-> c.rowVersion, base |-> c.base]]

(* A controller nobody holds any more is gone.                             *)
Only(p, c) ==
    panel' = [panel EXCEPT ![p] = IF c.life = "left" /\ Idle(Persisted(c))
                                  THEN Closed ELSE Persisted(c)]

Open(p) ==
    /\ panel[p].life = "closed"
    /\ Only(p, createController)
    /\ UNCHANGED <<saved, backup, record, delayed, lastChanged, changes, faults>>

(* The server answers a GET with the row as it is now.                     *)
LoadWip(p) ==
    /\ \/ panel[p].load = "asked"
          /\ Only(p, [panel[p] EXCEPT !.load = "answered", !.answer = RowVersion])
       \/ panel[p].replace = "asked"
          /\ Only(p, [panel[p] EXCEPT !.replace = "answered", !.answer = RowVersion])
    /\ UNCHANGED <<saved, backup, record, delayed, lastChanged, changes, faults>>

\* Mutant: recovered work is rebased on the row the server holds now.
RestoredOnLatest(c) ==
    LET unsent == {b \in backup : b.unsent}
        own == [c EXCEPT !.ready = TRUE, !.savedSequence = 0, !.load = "none", !.answer = 0]
    IN  IF unsent # {}
        THEN LET b == CHOOSE x \in unsent : TRUE
             IN  [own EXCEPT !.draft = b.draft, !.rowVersion = c.answer,
                             !.base = b.base, !.sequence = 1, !.status = "recovered"]
        ELSE [own EXCEPT !.draft = IF c.answer = 0 THEN c.draft ELSE saved[c.answer].draft,
                         !.rowVersion = c.answer, !.base = c.answer, !.sequence = 0,
                         !.status = IF c.answer = 0 THEN "idle" ELSE "loaded"]

(* Unsent work of this browser wins over the server's row, but keeps the   *)
(* version it was based on.                                                *)
RestoredWork(c) ==
    LET unsent == {b \in backup : b.unsent}
        own == [c EXCEPT !.ready = TRUE, !.savedSequence = 0, !.load = "none", !.answer = 0]
    IN  IF unsent # {}
        THEN LET b == CHOOSE x \in unsent : TRUE
             IN  [own EXCEPT !.draft = b.draft, !.rowVersion = b.rowVersion,
                             !.base = b.base, !.sequence = 1, !.status = "recovered"]
        ELSE [own EXCEPT !.draft = IF c.answer = 0 THEN c.draft ELSE saved[c.answer].draft,
                         !.rowVersion = c.answer, !.base = c.answer, !.sequence = 0,
                         !.status = IF c.answer = 0 THEN "idle" ELSE "loaded"]

LoadSaved(p) ==
    /\ panel[p].load = "answered" /\ panel[p].life = "mounted"
    /\ \E c \in {RestoredWork(panel[p])} :
         /\ Only(p, TokenRefreshed(c))
         /\ backup' = RefreshedBackup(c)
    /\ UNCHANGED <<saved, record, delayed, lastChanged, changes, faults>>

(* The record is read again and rendered.                                  *)
SeeRecord(p) ==
    /\ panel[p].life = "mounted" /\ panel[p].onScreen < record
    /\ \E c \in {[panel[p] EXCEPT !.onScreen = record]} :
         /\ Only(p, TokenRefreshed(c))
         /\ backup' = IF c.ready /\ c.draft.text = Initial THEN RefreshedBackup(c) ELSE backup
    /\ UNCHANGED <<saved, record, delayed, lastChanged, changes, faults>>

(* Every change of an entry: the value, a backup, a timer for the save.    *)
Changed(p, c) ==
    /\ CanChange /\ changes' = changes + 1
    /\ \E d \in {[c EXCEPT !.sequence = @ + 1, !.status = "queued", !.timer = TRUE]} :
         /\ Only(p, d)
         /\ backup' = keepBackup(d, TRUE)
         /\ lastChanged' = d.draft.text

Change(p) ==
    /\ panel[p].life = "mounted" /\ panel[p].ready
    /\ \E t \in Texts \ {panel[p].draft.text}, c \in {TokenRefreshed(panel[p])} :
         Changed(p, [c EXCEPT !.draft.text = t])
    /\ UNCHANGED <<saved, record, delayed, faults>>

(* "Keep entries after reviewing the latest version".                      *)
Acknowledge(p) ==
    /\ panel[p].life = "mounted" /\ panel[p].ready
    /\ panel[p].draft.token < panel[p].onScreen
    /\ Changed(p, [panel[p] EXCEPT !.draft.token = panel[p].onScreen,
                                   !.draft.reviewed = panel[p].onScreen])
    /\ UNCHANGED <<saved, record, delayed, faults>>

QueueSave(p) ==
    /\ panel[p].life = "mounted" /\ panel[p].queue < 2
    /\ panel[p].timer \/ (panel[p].status = "failed" /\ Idle(panel[p]))
    /\ Only(p, Enqueued(panel[p]))
    /\ UNCHANGED <<saved, backup, record, delayed, lastChanged, changes, faults>>

(* saveWip: one transaction that locks the row and requires its version.   *)
(* Two first saves meet at the unique key instead, with the same outcome.  *)
SaveWip(s) == IF s.expected = RowVersion THEN saved' = Append(saved, s) ELSE saved' = saved

Serve(p) ==
    /\ panel[p].post = "sent"
    /\ SaveWip(panel[p].sent)
    /\ Only(p, [panel[p] EXCEPT !.post =
                  IF @ = "sent" /\ panel[p].sent.expected = RowVersion
                  THEN "accepted" ELSE "refused"])
    /\ UNCHANGED <<backup, record, delayed, lastChanged, changes, faults>>

ServeDelayed ==
    \E s \in delayed :
       /\ delayed' = delayed \ {s}
       /\ SaveWip(s)
       /\ UNCHANGED <<backup, record, panel, lastChanged, changes, faults>>

Answered(c) == [c EXCEPT !.post = "none", !.sentSequence = 0, !.sent = createController.sent]

\* Mutant: what was typed while the save was in flight counts as saved too.
ConfirmedWhole(c) ==
    [Answered(c) EXCEPT
       !.rowVersion = c.sent.expected + 1, !.base = c.sent.expected + 1,
       !.savedSequence = c.sequence,
       !.status = IF c.life = "mounted" THEN "saved" ELSE @]

Confirmed(c) ==
    [Answered(c) EXCEPT
       !.rowVersion = c.sent.expected + 1, !.base = c.sent.expected + 1,
       !.savedSequence = c.sentSequence,
       !.status = IF c.life # "mounted" THEN @
                  ELSE IF c.sequence = c.sentSequence THEN "saved" ELSE "queued"]

SaveConfirmed(p) ==
    /\ panel[p].post = "accepted"
    /\ \E c \in {Confirmed(panel[p])} :
         /\ Only(p, c)
         /\ backup' = confirmBackup(c, panel[p].sequence # panel[p].sentSequence)
    /\ UNCHANGED <<saved, record, delayed, lastChanged, changes, faults>>

SaveRefused(p) ==
    /\ panel[p].post = "refused"
    /\ Only(p, [Answered(panel[p]) EXCEPT
                  !.status = IF panel[p].life = "mounted" THEN "conflict" ELSE @])
    /\ UNCHANGED <<saved, backup, record, delayed, lastChanged, changes, faults>>

(* No answer within REQUEST_TIMEOUT_MS, or the connection broke: whether   *)
(* the save was, will be or will never be applied is not known.            *)
SaveFailed(p) ==
    /\ panel[p].post # "none" /\ faults < MaxFaults
    /\ faults' = faults + 1
    /\ delayed' = delayed \cup (IF panel[p].post = "sent" THEN {panel[p].sent} ELSE {})
    /\ Only(p, [Answered(panel[p]) EXCEPT
                  !.status = IF panel[p].life = "mounted" THEN "failed" ELSE @])
    /\ UNCHANGED <<saved, backup, record, lastChanged, changes>>

(* "Replace newer server draft with my entries".                           *)
AskReplace(p) ==
    /\ panel[p].life = "mounted" /\ panel[p].status = "conflict" /\ panel[p].replace = "none"
    /\ Only(p, [panel[p] EXCEPT !.replace = "asked"])
    /\ UNCHANGED <<saved, backup, record, delayed, lastChanged, changes, faults>>

OverwriteWithLatestBase(p) ==
    /\ panel[p].replace = "answered" /\ panel[p].queue < 2
    /\ Only(p, Enqueued([panel[p] EXCEPT !.replace = "none", !.answer = 0,
                           !.rowVersion = panel[p].answer, !.base = panel[p].answer]))
    /\ UNCHANGED <<saved, backup, record, delayed, lastChanged, changes, faults>>

(* The form leaves the page: its timer dies, its last save is flushed.     *)
Unmount(p) ==
    /\ panel[p].life = "mounted" /\ panel[p].queue < 2
    /\ Only(p, [Enqueued(panel[p]) EXCEPT !.life = "left", !.status = "loading",
                                          !.load = "none", !.replace = "none", !.answer = 0])
    /\ UNCHANGED <<saved, backup, record, delayed, lastChanged, changes, faults>>

(* The tab dies; what it had sent may still arrive.                        *)
TabDies(p) ==
    /\ panel[p].life # "closed" /\ faults < MaxFaults
    /\ faults' = faults + 1
    /\ delayed' = delayed \cup (IF panel[p].post = "sent" THEN {panel[p].sent} ELSE {})
    /\ Only(p, Closed)
    /\ UNCHANGED <<saved, backup, record, lastChanged, changes>>

(* send: the draft is flushed, the action checks the version the draft was *)
(* written against, and the new version is stamped into the draft unless   *)
(* the answer is lost.                                                     *)
RecordAction(p) ==
    /\ panel[p].life = "mounted" /\ panel[p].ready
    /\ Idle(panel[p]) /\ ~Dirty(panel[p]) /\ panel[p].draft.text # Initial
    /\ panel[p].draft.token = record /\ record < MaxRecord
    /\ record' = record + 1
    /\ \/ Changed(p, [panel[p] EXCEPT !.draft.token = record + 1, !.draft.reviewed = record + 1,
                                      !.onScreen = record + 1])
          /\ UNCHANGED faults
       \/ /\ faults < MaxFaults /\ faults' = faults + 1
          /\ UNCHANGED <<panel, backup, lastChanged, changes>>
    /\ UNCHANGED <<saved, delayed>>

(* Somebody else changes the record.                                       *)
RecordChanges ==
    /\ record < MaxRecord /\ record' = record + 1
    /\ UNCHANGED <<saved, backup, panel, delayed, lastChanged, changes, faults>>
-----------------------------------------------------------------------------
Next ==
    \/ ServeDelayed \/ RecordChanges
    \/ \E p \in Panels :
         \/ Open(p) \/ LoadWip(p) \/ LoadSaved(p) \/ SeeRecord(p) \/ Change(p)
         \/ Acknowledge(p) \/ QueueSave(p) \/ Serve(p)
         \/ SaveConfirmed(p) \/ SaveRefused(p) \/ SaveFailed(p) \/ AskReplace(p)
         \/ OverwriteWithLatestBase(p) \/ Unmount(p) \/ TabDies(p) \/ RecordAction(p)

Spec == Init /\ [][Next]_vars
-----------------------------------------------------------------------------
TypeOK ==
    /\ saved \in Seq(Save) /\ RowVersion \in Versions
    /\ backup \in SUBSET Backup /\ Cardinality(backup) <= 1
    /\ record \in 1..MaxRecord /\ delayed \in SUBSET Save
    /\ panel \in [Panels -> Controller]
    /\ lastChanged \in Texts /\ changes \in 0..MaxChanges /\ faults \in 0..MaxFaults

(* The backup always holds the last change anybody made in this browser,   *)
(* and is no longer restored (unsent FALSE) only when the server accepted  *)
(* exactly that text at the version the backup names (confirmBackup).      *)
LastChangeSurvives ==
    \A b \in backup :
       /\ b.draft.text = lastChanged
       /\ ~b.unsent => /\ b.rowVersion \in 1..RowVersion
                       /\ saved[b.rowVersion].draft.text = b.draft.text

(* A form that says its draft is saved, or lets its tab close without a    *)
(* warning, shows a text the server accepted (sequence, savedSequence).    *)
SavedMeansAccepted ==
    \A p \in Panels :
       panel[p].life = "mounted" /\ panel[p].ready /\ ~Dirty(panel[p])
          /\ panel[p].draft.text # Initial
       => \E v \in 1..RowVersion : saved[v].draft.text = panel[p].draft.text

(* "The app does not silently adopt a newer base version": a save replaces *)
(* the version its text grew out of, or one its user chose to replace.     *)
NoSilentReplacement ==
    \A v \in 1..RowVersion : saved[v].base = v - 1

(* An edited draft carries the version of the record its user reviewed it  *)
(* against, through saves, tabs and recoveries (refreshUnchangedTokens).   *)
TokenWasReviewed ==
    \A p \in Panels :
       panel[p].ready /\ panel[p].draft.text # Initial
          => panel[p].draft.token = panel[p].draft.reviewed
-----------------------------------------------------------------------------
(* The inductive invariant behind the properties above.                    *)

Reviewed(draft) == draft.token = draft.reviewed

OwnBase(s) == s \in Save /\ Reviewed(s.draft) /\ s.base = s.expected

(* The server took this save, as the row's version after its `expected`.   *)
Took(rows, s) ==
    s.expected < Len(rows) /\ rows[s.expected + 1].draft.text = s.draft.text

(* What holds of a controller alone: nothing is sent before the draft is   *)
(* restored, and a save in flight that nothing was typed after is the      *)
(* draft.                                                                  *)
SoundAlone(c) ==
    /\ c \in Controller
    /\ Reviewed(c.draft) /\ c.base = c.rowVersion /\ OwnBase(c.sent)
    /\ c.savedSequence <= c.sequence
    /\ c.load # "none" => ~c.ready
    /\ ~c.ready => c.draft.text = Initial
    /\ c.post # "none" => c.ready /\ c.sentSequence <= c.sequence
    /\ c.post # "none" /\ c.sequence = c.sentSequence => c.sent.draft.text = c.draft.text

(* What holds of it against the rows of the server.                        *)
SoundAgainst(c, rows) ==
    /\ c.answer <= Len(rows)
    /\ c.post = "accepted" => Took(rows, c.sent)
    /\ c.ready /\ ~Dirty(c) /\ c.draft.text # Initial
          => \E v \in 1..Len(rows) : rows[v].draft.text = c.draft.text

SoundBackup(b, rows, text) ==
    /\ b \in Backup /\ Reviewed(b.draft) /\ b.base = b.rowVersion
    /\ b.draft.text = text
    /\ ~b.unsent => b.rowVersion \in 1..Len(rows) /\ rows[b.rowVersion].draft.text = text

IInv ==
    /\ TypeOK
    /\ \A v \in 1..Len(saved) : Reviewed(saved[v].draft)
    /\ NoSilentReplacement
    /\ \A s \in delayed : OwnBase(s)
    /\ \A p \in Panels : SoundAlone(panel[p]) /\ SoundAgainst(panel[p], saved)
    /\ \A b \in backup : SoundBackup(b, saved, lastChanged)
==============================================================================
