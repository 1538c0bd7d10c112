-------------------------- MODULE SavedWorkProofs --------------------------
(***************************************************************************)
(* What SavedWork promises for every number of forms, texts, changes,      *)
(* record versions and faults.                                             *)
(*                                                                         *)
(* SoundAlone and SoundAgainst are kept by every operator a controller is  *)
(* built from (Persisted, TokenRefreshed, RestoredWork, ...), so each      *)
(* action is a matter of naming the controller it leaves behind (Only).    *)
(***************************************************************************)
EXTENDS SavedWork, SequenceTheorems, FiniteSetTheorems, TLAPS

\* A draft of the record's own text is a draft, reviewed at its version.
LEMMA FreshIsReviewed ==
    ASSUME NEW token \in 1..MaxRecord
    PROVE  /\ Fresh(token) \in Draft /\ Reviewed(Fresh(token))
           /\ Fresh(token).text = Initial
  BY BoundsAssumption DEF Fresh, Draft, Reviewed

LEMMA OneIsAVersion == 1 \in 1..MaxRecord
  BY BoundsAssumption

\* No save at all: what `sent` holds while nothing is in flight.
LEMMA NoSaveIsOwnBase ==
    /\ createController.sent = [draft |-> Fresh(1), expected |-> 0, base |-> 0]
    /\ OwnBase(createController.sent)
<1>1. createController.sent = [draft |-> Fresh(1), expected |-> 0, base |-> 0]
  BY DEF createController
<1>2. Fresh(1) \in Draft /\ Reviewed(Fresh(1))
  BY FreshIsReviewed, OneIsAVersion
<1> QED BY <1>1, <1>2 DEF OwnBase, Save, Versions

\* A new controller, and the place where none is.
LEMMA NewControllersAreSound ==
    ASSUME NEW rows \in Seq(Save), record \in 1..MaxRecord
    PROVE  /\ SoundAlone(createController) /\ SoundAgainst(createController, rows)
           /\ SoundAlone(Closed) /\ SoundAgainst(Closed, rows)
<1>1. /\ Fresh(record) \in Draft /\ Reviewed(Fresh(record)) /\ Fresh(record).text = Initial
      /\ Fresh(1) \in Draft /\ Reviewed(Fresh(1)) /\ Fresh(1).text = Initial
  BY FreshIsReviewed, OneIsAVersion
<1>2. OwnBase([draft |-> Fresh(1), expected |-> 0, base |-> 0])
  BY NoSaveIsOwnBase
<1>3. Len(rows) \in Nat
  BY LenProperties
<1>4. createController \in Controller
  BY <1>1, <1>2 DEF createController, Controller, OwnBase, Versions, Statuses
<1>5. SoundAlone(createController) /\ SoundAgainst(createController, rows)
  BY <1>1, <1>2, <1>3, <1>4 DEF createController, SoundAlone, SoundAgainst
<1>6. /\ Closed.draft = Fresh(1)
      /\ Closed.sent = [draft |-> Fresh(1), expected |-> 0, base |-> 0]
      /\ Closed.base = 0 /\ Closed.rowVersion = 0 /\ Closed.sequence = 0
      /\ Closed.savedSequence = 0 /\ Closed.load = "none" /\ Closed.post = "none"
      /\ ~Closed.ready /\ Closed.answer = 0
  BY <1>1, <1>2, OneIsAVersion DEF Closed, createController, Controller, OwnBase, Versions, Statuses
<1>9. Closed \in Controller
  <2>1. Fresh(1) \in Draft /\ 1 \in 1..MaxRecord
    BY <1>1, OneIsAVersion
  <2>2. Closed = [createController EXCEPT !.life = "closed", !.load = "none",
                  !.draft = Fresh(1), !.onScreen = 1]
    BY DEF Closed
  <2> QED BY <1>4, <2>1, <2>2 DEF Controller
<1>7. SoundAlone(Closed)
  BY <1>1, <1>2, <1>6, <1>9 DEF SoundAlone
<1>8. SoundAgainst(Closed, rows)
  BY <1>3, <1>6 DEF SoundAgainst
<1> QED BY <1>5, <1>7, <1>8

\* The fields SoundAlone and SoundAgainst read, and nothing else, decide them.
LEMMA OtherFieldsDoNotMatter ==
    ASSUME NEW c, NEW d, NEW rows, d \in Controller, SoundAlone(c), SoundAgainst(c, rows),
           d.draft = c.draft, d.base = c.base, d.rowVersion = c.rowVersion, d.sent = c.sent,
           d.sequence = c.sequence, d.savedSequence = c.savedSequence,
           d.sentSequence = c.sentSequence, d.ready = c.ready,
           d.load = c.load, d.post = c.post, d.answer = c.answer
    PROVE  SoundAlone(d) /\ SoundAgainst(d, rows)
  BY DEF SoundAlone, SoundAgainst, Dirty

LEMMA PersistedIsSound ==
    ASSUME NEW c, NEW rows, SoundAlone(c), SoundAgainst(c, rows)
    PROVE  SoundAlone(Persisted(c)) /\ SoundAgainst(Persisted(c), rows)
<1>1. c \in Controller
  BY DEF SoundAlone
<1>2. CASE c.queue = 0 \/ c.post # "none"
  BY <1>2 DEF Persisted
<1>3. CASE ~(c.queue = 0 \/ c.post # "none") /\ (~c.ready \/ ~Dirty(c))
  <2>1. Persisted(c) = [c EXCEPT !.queue = 0]
    BY <1>3 DEF Persisted
  <2>2. [c EXCEPT !.queue = 0] \in Controller
    BY <1>1 DEF Controller
  <2> DEFINE d == [c EXCEPT !.queue = 0]
  <2>3. /\ d.draft = c.draft /\ d.base = c.base /\ d.rowVersion = c.rowVersion
        /\ d.sent = c.sent /\ d.sequence = c.sequence /\ d.savedSequence = c.savedSequence
        /\ d.sentSequence = c.sentSequence /\ d.ready = c.ready
        /\ d.load = c.load /\ d.post = c.post /\ d.answer = c.answer
    BY <1>1 DEF Controller
  <2> HIDE DEF d
  <2> QED BY <2>1, <2>2, <2>3, OtherFieldsDoNotMatter DEF d
<1>4. CASE c.queue # 0 /\ c.post = "none" /\ c.ready /\ Dirty(c)
  <2> DEFINE s == [draft |-> c.draft, expected |-> c.rowVersion, base |-> c.base]
             d == [c EXCEPT !.queue = @ - 1, !.post = "sent", !.sentSequence = c.sequence,
                   !.status = IF c.life = "mounted" THEN "saving" ELSE @, !.sent = s]
  <2>1. Persisted(c) = d
    BY <1>4 DEF Persisted
  <2>2. OwnBase(s)
    BY <1>1 DEF SoundAlone, OwnBase, Save, Controller, Versions
  <2>3. c.queue - 1 \in 0..2 /\ c.sequence \in Versions
        /\ (IF c.life = "mounted" THEN "saving" ELSE c.status) \in Statuses
    BY <1>1, <1>4 DEF Controller, Statuses
  <2> HIDE DEF s
  <2>4. s \in Save
    BY <2>2 DEF OwnBase
  <2>5. d \in Controller
    BY <1>1, <2>3, <2>4 DEF Controller
  <2>6. /\ d.draft = c.draft /\ d.base = c.base /\ d.rowVersion = c.rowVersion
        /\ d.sent = s /\ d.sequence = c.sequence /\ d.savedSequence = c.savedSequence
        /\ d.sentSequence = c.sequence /\ d.ready = c.ready
        /\ d.load = c.load /\ d.post = "sent" /\ d.answer = c.answer
    BY <1>1 DEF Controller
  <2>7. s.draft = c.draft
    BY DEF s
  <2> HIDE DEF d
  <2>8. SoundAlone(d)
    <3>1. c.sequence \in Nat
      BY <1>1 DEF Controller, Versions
    <3> QED BY <1>4, <2>2, <2>5, <2>6, <2>7, <3>1 DEF SoundAlone
  <2>9. SoundAgainst(d, rows)
    BY <1>4, <2>6 DEF SoundAgainst, Dirty
  <2> QED BY <2>1, <2>8, <2>9
<1> QED BY <1>2, <1>3, <1>4

\* One controller is replaced, or is gone once it has nothing left to send.
LEMMA OnlyKeepsSound ==
    ASSUME NEW p \in Panels, NEW c, NEW rows \in Seq(Save), record \in 1..MaxRecord,
           Only(p, c), SoundAlone(c), SoundAgainst(c, rows),
           panel \in [Panels -> Controller],
           \A q \in Panels : SoundAlone(panel[q]) /\ SoundAgainst(panel[q], rows)
    PROVE  /\ panel' \in [Panels -> Controller]
           /\ \A q \in Panels : SoundAlone(panel'[q]) /\ SoundAgainst(panel'[q], rows)
<1>1. SoundAlone(Persisted(c)) /\ SoundAgainst(Persisted(c), rows)
  BY PersistedIsSound
<1>2. SoundAlone(Closed) /\ SoundAgainst(Closed, rows)
  BY NewControllersAreSound
<1> DEFINE d == IF c.life = "left" /\ Idle(Persisted(c)) THEN Closed ELSE Persisted(c)
<1>3. SoundAlone(d) /\ SoundAgainst(d, rows)
  BY <1>1, <1>2
<1>4. panel' = [panel EXCEPT ![p] = d]
  BY DEF Only
<1> HIDE DEF d
<1>5. d \in Controller
  BY <1>3 DEF SoundAlone
<1> QED BY <1>3, <1>4, <1>5

\* The server's rows only grow: what held against them still holds.
LEMMA RowsGrow ==
    ASSUME NEW rows \in Seq(Save), NEW s \in Save
    PROVE  /\ Append(rows, s) \in Seq(Save)
           /\ Len(Append(rows, s)) = Len(rows) + 1
           /\ \A v \in 1..Len(rows) : Append(rows, s)[v] = rows[v]
           /\ Append(rows, s)[Len(rows) + 1] = s
           /\ Len(rows) \in Nat
  BY AppendProperties, LenProperties

LEMMA GrowthKeepsSound ==
    ASSUME NEW rows \in Seq(Save), NEW s \in Save
    PROVE  /\ \A c : SoundAlone(c) /\ SoundAgainst(c, rows) => SoundAgainst(c, Append(rows, s))
           /\ \A t \in Save : Took(rows, t) => Took(Append(rows, s), t)
           /\ \A b, text : SoundBackup(b, rows, text) => SoundBackup(b, Append(rows, s), text)
<1> DEFINE more == Append(rows, s)
<1>1. /\ Len(more) = Len(rows) + 1 /\ Len(rows) \in Nat
      /\ \A v \in 1..Len(rows) : more[v] = rows[v]
  BY RowsGrow
<1> HIDE DEF more
<1>2. ASSUME NEW t \in Save, Took(rows, t)
      PROVE  Took(more, t)
  <2>1. t.expected \in Nat
    BY DEF Save, Versions
  <2>2. t.expected + 1 \in 1..Len(rows)
    BY <1>1, <1>2, <2>1 DEF Took
  <2> QED BY <1>1, <1>2, <2>1, <2>2 DEF Took
<1>3. ASSUME NEW c, SoundAlone(c), SoundAgainst(c, rows)
      PROVE  SoundAgainst(c, more)
  <2>1. c.answer \in Nat /\ c.sent \in Save
    BY <1>3 DEF SoundAlone, OwnBase, Controller, Versions
  <2>2. c.answer <= Len(more)
    BY <1>1, <1>3, <2>1 DEF SoundAgainst
  <2>3. c.post = "accepted" => Took(more, c.sent)
    BY <1>2, <1>3, <2>1 DEF SoundAgainst
  <2>4. ASSUME NEW v \in 1..Len(rows)
        PROVE  v \in 1..Len(more) /\ more[v] = rows[v]
    BY <1>1
  <2>5. ASSUME c.ready, ~Dirty(c), c.draft.text # Initial
        PROVE  \E v \in 1..Len(more) : more[v].draft.text = c.draft.text
    <3>1. PICK v \in 1..Len(rows) : rows[v].draft.text = c.draft.text
      BY <1>3, <2>5 DEF SoundAgainst
    <3> QED BY <2>4, <3>1
  <2> QED BY <2>2, <2>3, <2>5 DEF SoundAgainst
<1>4. ASSUME NEW b, NEW text, SoundBackup(b, rows, text)
      PROVE  SoundBackup(b, more, text)
  <2>1. b.rowVersion \in 1..Len(rows) =>
           b.rowVersion \in 1..Len(more) /\ more[b.rowVersion] = rows[b.rowVersion]
    BY <1>1
  <2> QED BY <1>4, <2>1 DEF SoundBackup
<1> QED BY <1>2, <1>3, <1>4 DEF more
-----------------------------------------------------------------------------
(* The operators a controller is built from.                               *)

\* The token follows the record while the text is the record's own: it names
\* the version on screen, reviewed as such.
LEMMA TokenRefreshedIsSound ==
    ASSUME NEW c, NEW rows, SoundAlone(c), SoundAgainst(c, rows)
    PROVE  /\ SoundAlone(TokenRefreshed(c)) /\ SoundAgainst(TokenRefreshed(c), rows)
           /\ TokenRefreshed(c).draft.text = c.draft.text
           /\ TokenRefreshed(c).rowVersion = c.rowVersion
           /\ TokenRefreshed(c).ready = c.ready /\ TokenRefreshed(c).load = c.load
<1>1. c \in Controller
  BY DEF SoundAlone
<1>2. CASE ~(c.ready /\ c.draft.text = Initial)
  BY <1>2 DEF TokenRefreshed
<1>3. CASE c.ready /\ c.draft.text = Initial
  <2> DEFINE draft == [c.draft EXCEPT !.token = c.onScreen, !.reviewed = c.onScreen]
             d == [c EXCEPT !.draft = draft]
  <2>1. c.draft \in Draft /\ c.onScreen \in 1..MaxRecord
    BY <1>1 DEF Controller
  <2>2. draft \in Draft /\ Reviewed(draft) /\ draft.text = c.draft.text
    BY <2>1 DEF Draft, Reviewed
  <2>3. TokenRefreshed(c) = d
    BY <1>1, <1>3, <2>1 DEF TokenRefreshed, Controller, Draft
  <2> HIDE DEF draft
  <2>4. d \in Controller
    BY <1>1, <2>2 DEF Controller
  <2>5. /\ d.draft = draft /\ d.base = c.base /\ d.rowVersion = c.rowVersion
        /\ d.sent = c.sent /\ d.sequence = c.sequence /\ d.savedSequence = c.savedSequence
        /\ d.sentSequence = c.sentSequence /\ d.ready = c.ready
        /\ d.load = c.load /\ d.post = c.post /\ d.answer = c.answer
    BY <1>1 DEF Controller
  <2> HIDE DEF d
  <2>6. SoundAlone(d)
    BY <2>2, <2>4, <2>5 DEF SoundAlone
  <2>7. SoundAgainst(d, rows)
    BY <2>2, <2>5 DEF SoundAgainst, Dirty
  <2> QED BY <2>2, <2>3, <2>5, <2>6, <2>7
<1> QED BY <1>2, <1>3

\* What a controller writes to localStorage, given that its text is the last
\* change and that, when nothing is left to send, the server holds that text.
LEMMA KeptBackupIsSound ==
    ASSUME NEW c, NEW unsent \in BOOLEAN, NEW rows, NEW text, SoundAlone(c),
           c.draft.text = text,
           ~unsent => c.rowVersion \in 1..Len(rows) /\ rows[c.rowVersion].draft.text = text
    PROVE  /\ keepBackup(c, unsent) \in SUBSET Backup
           /\ Cardinality(keepBackup(c, unsent)) <= 1
           /\ \A b \in keepBackup(c, unsent) : SoundBackup(b, rows, text)
<1> DEFINE b == [draft |-> c.draft, unsent |-> unsent, rowVersion |-> c.rowVersion,
                 base |-> c.base]
<1>1. c \in Controller /\ Reviewed(c.draft) /\ c.base = c.rowVersion
  BY DEF SoundAlone
<1>2. b \in Backup
  BY <1>1 DEF Backup, Controller
<1>3. SoundBackup(b, rows, text)
  BY <1>1, <1>2 DEF SoundBackup
<1>4. keepBackup(c, unsent) = {b}
  BY DEF keepBackup
<1> HIDE DEF b
<1>5. Cardinality({b}) = 1
  BY FS_Singleton
<1> QED BY <1>2, <1>3, <1>4, <1>5

\* The backup as IInv has it.
Kept(backups, rows, text) ==
    /\ backups \in SUBSET Backup /\ Cardinality(backups) <= 1
    /\ \A b \in backups : SoundBackup(b, rows, text)

\* A panel's own backup follows the token, and is unsent as it was.
LEMMA RefreshedBackupIsSound ==
    ASSUME NEW c, NEW rows, NEW text, SoundAlone(c), SoundAgainst(c, rows),
           Kept(backup, rows, text)
    PROVE  Kept(RefreshedBackup(c), rows, text)
<1>1. CASE ~\E b \in backup : b.rowVersion = c.rowVersion /\ SameValues(b.draft, c.draft)
  BY <1>1 DEF RefreshedBackup
<1>2. CASE \E b \in backup : b.rowVersion = c.rowVersion /\ SameValues(b.draft, c.draft)
  <2>1. PICK b \in backup : b.rowVersion = c.rowVersion /\ SameValues(b.draft, c.draft)
    BY <1>2
  <2> DEFINE d == TokenRefreshed(c)
             unsent == \E x \in backup : x.unsent
  <2>2. SoundBackup(b, rows, text)
    BY <2>1 DEF Kept
  <2>3. SoundAlone(d) /\ d.draft.text = c.draft.text /\ d.rowVersion = c.rowVersion
    BY TokenRefreshedIsSound
  <2>4. d.draft.text = text
    BY <2>1, <2>2, <2>3 DEF SoundBackup, SameValues
  <2>5. unsent \in BOOLEAN /\ (~unsent => ~b.unsent)
    BY <2>1
  <2>6. RefreshedBackup(c) = keepBackup(d, unsent)
    BY <1>2 DEF RefreshedBackup
  <2> HIDE DEF d, unsent
  <2>7. ~unsent => d.rowVersion \in 1..Len(rows) /\ rows[d.rowVersion].draft.text = text
    BY <2>1, <2>2, <2>3, <2>5 DEF SoundBackup
  <2> QED BY <2>3, <2>4, <2>5, <2>6, <2>7, KeptBackupIsSound DEF Kept
<1> QED BY <1>1, <1>2

\* What loading leaves: unsent work on the version it was based on, or the row.
LEMMA RestoredWorkIsSound ==
    ASSUME NEW c, NEW text, SoundAlone(c), SoundAgainst(c, saved),
           saved \in Seq(Save), \A v \in 1..Len(saved) : Reviewed(saved[v].draft),
           Kept(backup, saved, text), c.load = "answered"
    PROVE  SoundAlone(RestoredWork(c)) /\ SoundAgainst(RestoredWork(c), saved)
<1>1. c \in Controller /\ ~c.ready /\ c.post = "none" /\ c.answer \in Nat /\ c.answer <= Len(saved)
  BY DEF SoundAlone, SoundAgainst, Controller, Versions
<1> DEFINE unsent == {b \in backup : b.unsent}
           own == [c EXCEPT !.ready = TRUE, !.savedSequence = 0, !.load = "none", !.answer = 0]
<1>2. /\ own \in Controller /\ own.draft = c.draft /\ own.sent = c.sent /\ own.post = "none"
      /\ own.ready /\ own.savedSequence = 0 /\ own.load = "none" /\ own.answer = 0
      /\ own.sentSequence = c.sentSequence
  BY <1>1 DEF Controller, Versions
<1>3. OwnBase(c.sent) /\ Reviewed(c.draft)
  BY DEF SoundAlone
<1> HIDE DEF own
<1>4. CASE unsent # {}
  <2> DEFINE b == CHOOSE x \in unsent : TRUE
             d == [own EXCEPT !.draft = b.draft, !.rowVersion = b.rowVersion,
                              !.base = b.base, !.sequence = 1, !.status = "recovered"]
  <2>1. RestoredWork(c) = d
    BY <1>4 DEF RestoredWork, own
  <2>2. b \in backup
    BY <1>4
  <2> HIDE DEF b
  <2>3. SoundBackup(b, saved, text)
    BY <2>2 DEF Kept
  <2>4. /\ b.draft \in Draft /\ b.rowVersion \in Versions /\ b.base \in Versions
        /\ Reviewed(b.draft) /\ b.base = b.rowVersion
    BY <2>3 DEF SoundBackup, Backup
  <2>5. d \in Controller
    BY <1>2, <2>4 DEF Controller, Versions, Statuses
  <2>6. /\ d.draft = b.draft /\ d.rowVersion = b.rowVersion /\ d.base = b.base
        /\ d.sequence = 1 /\ d.savedSequence = 0 /\ d.post = "none" /\ d.load = "none"
        /\ d.answer = 0 /\ d.sent = c.sent /\ d.ready
    BY <1>2 DEF Controller
  <2> HIDE DEF d
  <2>7. SoundAlone(d)
    BY <1>3, <2>4, <2>5, <2>6 DEF SoundAlone
  <2>8. SoundAgainst(d, saved)
    BY <1>1, <2>6, LenProperties DEF SoundAgainst, Dirty
  <2> QED BY <2>1, <2>7, <2>8
<1>5. CASE unsent = {}
  <2> DEFINE draft == IF c.answer = 0 THEN c.draft ELSE saved[c.answer].draft
             d == [own EXCEPT !.draft = draft, !.rowVersion = c.answer, !.base = c.answer,
                              !.sequence = 0,
                              !.status = IF c.answer = 0 THEN "idle" ELSE "loaded"]
  <2>1. RestoredWork(c) = d
    BY <1>5 DEF RestoredWork, own
  <2>2. c.answer # 0 => /\ c.answer \in 1..Len(saved)
                        /\ saved[c.answer] \in Save /\ Reviewed(saved[c.answer].draft)
    <3>1. c.answer # 0 => c.answer \in 1..Len(saved)
      BY <1>1, LenProperties
    <3> QED BY <3>1, ElementOfSeq
  <2>3. draft \in Draft /\ Reviewed(draft)
    BY <1>1, <1>3, <2>2 DEF Save, Controller
  <2>4. \/ draft.text = Initial
        \/ \E v \in 1..Len(saved) : saved[v].draft.text = draft.text
    BY <1>1, <2>2 DEF SoundAlone
  <2> HIDE DEF draft
  <2>5. c.answer \in Versions /\ 0 \in Versions
        /\ (IF c.answer = 0 THEN "idle" ELSE "loaded") \in Statuses
    BY <1>1 DEF Versions, Statuses
  <2>6. d \in Controller
    BY <1>2, <2>3, <2>5 DEF Controller
  <2>7. /\ d.draft = draft /\ d.rowVersion = c.answer /\ d.base = c.answer
        /\ d.sequence = 0 /\ d.savedSequence = 0 /\ d.post = "none" /\ d.load = "none"
        /\ d.answer = 0 /\ d.sent = c.sent /\ d.ready
    BY <1>2 DEF Controller
  <2> HIDE DEF d
  <2>8. SoundAlone(d)
    BY <1>3, <2>3, <2>6, <2>7 DEF SoundAlone
  <2>9. SoundAgainst(d, saved)
    BY <1>1, <2>4, <2>7, LenProperties DEF SoundAgainst, Dirty
  <2> QED BY <2>1, <2>8, <2>9
<1> QED BY <1>4, <1>5

LEMMA EnqueuedIsSound ==
    ASSUME NEW c, NEW rows, SoundAlone(c), SoundAgainst(c, rows), c.queue < 2
    PROVE  SoundAlone(Enqueued(c)) /\ SoundAgainst(Enqueued(c), rows)
<1> DEFINE d == [c EXCEPT !.timer = FALSE, !.queue = @ + 1]
<1>1. c \in Controller
  BY DEF SoundAlone
<1>2. c.queue + 1 \in 0..2
  BY <1>1 DEF Controller
<1>3. d \in Controller
  BY <1>1, <1>2 DEF Controller
<1>4. /\ d.draft = c.draft /\ d.base = c.base /\ d.rowVersion = c.rowVersion
      /\ d.sent = c.sent /\ d.sequence = c.sequence /\ d.savedSequence = c.savedSequence
      /\ d.sentSequence = c.sentSequence /\ d.ready = c.ready
      /\ d.load = c.load /\ d.post = c.post /\ d.answer = c.answer
  BY <1>1 DEF Controller
<1>5. Enqueued(c) = d
  BY DEF Enqueued
<1> HIDE DEF d
<1> QED BY <1>3, <1>4, <1>5, OtherFieldsDoNotMatter

\* A save has ended, however it ended: nothing is in flight.
LEMMA AnsweredIsSound ==
    ASSUME NEW c, NEW rows, SoundAlone(c), SoundAgainst(c, rows)
    PROVE  LET d == Answered(c)
           IN  /\ SoundAlone(d) /\ SoundAgainst(d, rows)
               /\ d.post = "none" /\ d.sentSequence = 0 /\ d.sent = createController.sent
               /\ d.draft = c.draft /\ d.base = c.base /\ d.rowVersion = c.rowVersion
               /\ d.sequence = c.sequence /\ d.savedSequence = c.savedSequence
               /\ d.ready = c.ready /\ d.load = c.load /\ d.answer = c.answer
<1> DEFINE s == createController.sent
           d == [c EXCEPT !.post = "none", !.sentSequence = 0, !.sent = s]
<1>1. c \in Controller
  BY DEF SoundAlone
<1>2. OwnBase(s)
  BY NoSaveIsOwnBase
<1>3. Answered(c) = d
  BY DEF Answered
<1> HIDE DEF s
<1>4. s \in Save
  BY <1>2 DEF OwnBase
<1>5. d \in Controller
  BY <1>1, <1>4 DEF Controller, Versions
<1>6. /\ d.draft = c.draft /\ d.base = c.base /\ d.rowVersion = c.rowVersion
      /\ d.sent = s /\ d.sequence = c.sequence /\ d.savedSequence = c.savedSequence
      /\ d.sentSequence = 0 /\ d.ready = c.ready
      /\ d.load = c.load /\ d.post = "none" /\ d.answer = c.answer
  BY <1>1 DEF Controller
<1> HIDE DEF d
<1>7. SoundAlone(d)
  BY <1>2, <1>5, <1>6 DEF SoundAlone
<1>8. SoundAgainst(d, rows)
  BY <1>6 DEF SoundAgainst, Dirty
<1> QED BY <1>3, <1>6, <1>7, <1>8 DEF s

\* A save was accepted: the draft counts as saved as far as it was sent.
LEMMA ConfirmedIsSound ==
    ASSUME NEW c, NEW rows, SoundAlone(c), SoundAgainst(c, rows), c.post = "accepted",
           rows \in Seq(Save)
    PROVE  LET d == Confirmed(c)
           IN  /\ SoundAlone(d) /\ SoundAgainst(d, rows)
               /\ d.draft = c.draft /\ d.rowVersion = c.sent.expected + 1
               /\ d.rowVersion \in 1..Len(rows)
               /\ rows[d.rowVersion].draft.text = c.sent.draft.text
               /\ c.sequence = c.sentSequence => c.sent.draft.text = c.draft.text
<1> DEFINE a == Answered(c)
           n == c.sent.expected + 1
           d == [a EXCEPT !.rowVersion = n, !.base = n, !.savedSequence = c.sentSequence,
                          !.status = IF c.life # "mounted" THEN @
                                     ELSE IF c.sequence = c.sentSequence THEN "saved" ELSE "queued"]
<1>1. /\ c \in Controller /\ Took(rows, c.sent) /\ c.ready /\ c.sentSequence <= c.sequence
      /\ c.sequence = c.sentSequence => c.sent.draft.text = c.draft.text
  BY DEF SoundAlone, SoundAgainst
<1>2. /\ SoundAlone(a) /\ SoundAgainst(a, rows) /\ a.draft = c.draft /\ a.post = "none"
      /\ a.sequence = c.sequence /\ a.ready = c.ready /\ a.load = c.load /\ a.answer = c.answer
      /\ a.sent = createController.sent
  BY AnsweredIsSound
<1>3. Confirmed(c) = d
  BY DEF Confirmed
<1> HIDE DEF a
<1>4. c.sent.expected \in Nat /\ c.sentSequence \in Versions /\ c.sequence \in Nat
  BY <1>1 DEF Controller, Save, Versions
<1>5. n \in Versions /\ n \in 1..Len(rows) /\ rows[n].draft.text = c.sent.draft.text
  BY <1>1, <1>4, LenProperties DEF Took, Versions
<1>6. a \in Controller
  BY <1>2 DEF SoundAlone
<1> HIDE DEF n
<1>7. (IF c.life # "mounted" THEN a.status
       ELSE IF c.sequence = c.sentSequence THEN "saved" ELSE "queued") \in Statuses
  BY <1>6 DEF Controller, Statuses
<1>8. d \in Controller
  BY <1>4, <1>5, <1>6, <1>7 DEF Controller
<1>9. /\ d.draft = c.draft /\ d.base = n /\ d.rowVersion = n
      /\ d.sent = createController.sent /\ d.sequence = c.sequence
      /\ d.savedSequence = c.sentSequence
      /\ d.ready = c.ready /\ d.load = c.load /\ d.post = "none" /\ d.answer = c.answer
  BY <1>2, <1>6 DEF Controller
<1> HIDE DEF d
<1>10. SoundAlone(d)
  <2>1. Reviewed(c.draft) /\ (c.load # "none" => ~c.ready) /\ OwnBase(createController.sent)
    BY NoSaveIsOwnBase DEF SoundAlone
  <2> QED BY <1>1, <1>8, <1>9, <2>1 DEF SoundAlone
<1>11. SoundAgainst(d, rows)
  <2>1. c.answer <= Len(rows)
    BY DEF SoundAgainst
  <2>2. c.sequence = c.sentSequence =>
           \E v \in 1..Len(rows) : rows[v].draft.text = c.draft.text
    BY <1>1, <1>5
  <2> QED BY <1>9, <2>1, <2>2 DEF SoundAgainst, Dirty
<1> QED BY <1>1, <1>3, <1>5, <1>9, <1>10, <1>11 DEF n

\* Something is typed, acknowledged or stamped into a restored draft: it has
\* a number of its own, so that it waits for a save of its own.
Touched(c, draft, onScreen) ==
    [c EXCEPT !.draft = draft, !.onScreen = onScreen,
              !.sequence = @ + 1, !.status = "queued", !.timer = TRUE]

LEMMA ChangedIsSound ==
    ASSUME NEW c, NEW rows, NEW draft \in Draft, NEW onScreen \in 1..MaxRecord,
           SoundAlone(c), SoundAgainst(c, rows), c.ready, Reviewed(draft)
    PROVE  /\ SoundAlone(Touched(c, draft, onScreen))
           /\ SoundAgainst(Touched(c, draft, onScreen), rows)
           /\ Touched(c, draft, onScreen).draft = draft
<1> DEFINE d == [c EXCEPT !.draft = draft, !.onScreen = onScreen,
                          !.sequence = @ + 1, !.status = "queued", !.timer = TRUE]
<1>1. c \in Controller
  BY DEF SoundAlone
<1>2. c.sequence \in Nat /\ c.sequence + 1 \in Versions /\ c.sentSequence \in Nat /\ c.savedSequence \in Nat
  BY <1>1 DEF Controller, Versions
<1>3. d \in Controller
  BY <1>1, <1>2 DEF Controller, Statuses
<1>4. /\ d.draft = draft /\ d.base = c.base /\ d.rowVersion = c.rowVersion
      /\ d.sent = c.sent /\ d.sequence = c.sequence + 1 /\ d.savedSequence = c.savedSequence
      /\ d.sentSequence = c.sentSequence /\ d.ready = c.ready
      /\ d.load = c.load /\ d.post = c.post /\ d.answer = c.answer
  BY <1>1 DEF Controller
<1> HIDE DEF d
<1>5. SoundAlone(d)
  BY <1>2, <1>3, <1>4 DEF SoundAlone
<1>6. SoundAgainst(d, rows)
  <2>1. c.savedSequence <= c.sequence
    BY DEF SoundAlone
  <2>2. d.sequence # d.savedSequence
    BY <1>2, <1>4, <2>1
  <2> QED BY <1>4, <2>2 DEF SoundAgainst, Dirty
<1> QED BY <1>4, <1>5, <1>6 DEF d, Touched
-----------------------------------------------------------------------------
(* The steps.                                                              *)

PanelsSound(panels, rows) ==
    /\ panels \in [Panels -> Controller]
    /\ \A p \in Panels : SoundAlone(panels[p]) /\ SoundAgainst(panels[p], rows)

RowsSound(rows) ==
    /\ rows \in Seq(Save)
    /\ \A v \in 1..Len(rows) : Reviewed(rows[v].draft) /\ rows[v].base = v - 1

CountersTyped(version, text, change, fault) ==
    /\ version \in 1..MaxRecord /\ text \in Texts
    /\ change \in 0..MaxChanges /\ fault \in 0..MaxFaults

LEMMA PartsOfIInv ==
    IInv <=> /\ RowsSound(saved) /\ Kept(backup, saved, lastChanged)
             /\ \A s \in delayed : OwnBase(s)
             /\ PanelsSound(panel, saved)
             /\ CountersTyped(record, lastChanged, changes, faults)
  BY LenProperties
     DEF IInv, TypeOK, RowsSound, Kept, PanelsSound, CountersTyped, NoSilentReplacement,
         RowVersion, Versions, OwnBase, SoundBackup

LEMMA PartsOfIInvNext ==
    ASSUME RowsSound(saved'), Kept(backup', saved', lastChanged'),
           \A s \in delayed' : OwnBase(s),
           PanelsSound(panel', saved'),
           CountersTyped(record', lastChanged', changes', faults')
    PROVE  IInv'
<1>1. Len(saved') \in Nat
  BY LenProperties DEF RowsSound
<1> QED BY <1>1
     DEF IInv, TypeOK, RowsSound, Kept, PanelsSound, CountersTyped, NoSilentReplacement,
         RowVersion, Versions, OwnBase, SoundBackup

\* A step of one form that leaves the server's row alone.
LEMMA PanelStepKeeps ==
    ASSUME IInv, NEW p \in Panels, NEW c, Only(p, c), SoundAlone(c), SoundAgainst(c, saved)
    PROVE  PanelsSound(panel', saved)
  BY PartsOfIInv, OnlyKeepsSound DEF PanelsSound, RowsSound, CountersTyped

\* The server takes a save on the version it was made for, or leaves its row.
LEMMA ServedRowsAreSound ==
    ASSUME RowsSound(saved), NEW s, OwnBase(s), SaveWip(s)
    PROVE  /\ RowsSound(saved')
           /\ \A panels : PanelsSound(panels, saved) => PanelsSound(panels, saved')
           /\ \A backups, text : Kept(backups, saved, text) => Kept(backups, saved', text)
           /\ s.expected = Len(saved) => Took(saved', s)
           /\ \A c : SoundAlone(c) /\ SoundAgainst(c, saved) => SoundAgainst(c, saved')
<1>1. s \in Save /\ s.expected \in Nat /\ saved \in Seq(Save)
  BY DEF OwnBase, Save, Versions, RowsSound
<1>2. CASE s.expected # RowVersion
  BY <1>2 DEF SaveWip, RowVersion
<1>3. CASE s.expected = RowVersion
  <2>1. saved' = Append(saved, s)
    BY <1>3 DEF SaveWip
  <2>2. /\ Append(saved, s) \in Seq(Save)
        /\ Len(Append(saved, s)) = Len(saved) + 1
        /\ \A v \in 1..Len(saved) : Append(saved, s)[v] = saved[v]
        /\ Append(saved, s)[Len(saved) + 1] = s
        /\ Len(saved) \in Nat
    BY <1>1, RowsGrow
  <2>3. s.expected = Len(saved)
    BY <1>3 DEF RowVersion
  <2>4. RowsSound(saved')
    <3>1. SUFFICES ASSUME NEW v \in 1..Len(saved')
                   PROVE  Reviewed(saved'[v].draft) /\ saved'[v].base = v - 1
      BY <2>1, <2>2 DEF RowsSound
    <3>2. CASE v \in 1..Len(saved)
      BY <2>1, <2>2, <3>2 DEF RowsSound
    <3>3. CASE v = Len(saved) + 1
      BY <2>1, <2>2, <2>3, <3>3 DEF OwnBase
    <3> QED BY <2>1, <2>2, <3>2, <3>3
  <2>5. Took(saved', s)
    BY <2>1, <2>2, <2>3 DEF Took
  <2> QED BY <1>1, <2>1, <2>4, <2>5, GrowthKeepsSound DEF PanelsSound, Kept
<1> QED BY <1>2, <1>3

LEMMA InitIsSound == Init => IInv
<1> SUFFICES ASSUME Init PROVE IInv
  OBVIOUS
<1>1. record \in 1..MaxRecord /\ saved = <<>> /\ saved \in Seq(Save) /\ Len(saved) = 0
  BY BoundsAssumption DEF Init
<1>2. SoundAlone(Closed) /\ SoundAgainst(Closed, saved) /\ Closed \in Controller
  BY <1>1, NewControllersAreSound DEF SoundAlone
<1>3. PanelsSound(panel, saved)
  BY <1>2 DEF Init, PanelsSound
<1>4. RowsSound(saved)
  BY <1>1 DEF RowsSound
<1>5. Kept(backup, saved, lastChanged)
  BY FS_EmptySet DEF Init, Kept
<1>6. CountersTyped(record, lastChanged, changes, faults)
  BY <1>1, BoundsAssumption DEF Init, CountersTyped
<1> QED BY <1>3, <1>4, <1>5, <1>6, PartsOfIInv DEF Init

\* Loading a draft, and seeing the record anew.
LEMMA LoadingKeepsSound ==
    ASSUME IInv, NEW p \in Panels,
           Open(p) \/ LoadWip(p) \/ LoadSaved(p) \/ SeeRecord(p)
    PROVE  IInv'
<1> DEFINE c == panel[p]
<1>1. /\ RowsSound(saved) /\ Kept(backup, saved, lastChanged) /\ \A s \in delayed : OwnBase(s)
      /\ PanelsSound(panel, saved) /\ CountersTyped(record, lastChanged, changes, faults)
      /\ saved \in Seq(Save) /\ record \in 1..MaxRecord
  BY PartsOfIInv DEF RowsSound, CountersTyped
<1>2. SoundAlone(c) /\ SoundAgainst(c, saved) /\ c \in Controller
  BY <1>1 DEF PanelsSound
<1>3. Len(saved) \in Nat
  BY <1>1, LenProperties
<1>4. UNCHANGED <<saved, record, delayed, lastChanged, changes, faults>>
  BY DEF Open, LoadWip, LoadSaved, SeeRecord
<1> HIDE DEF c
<1>5. CASE Open(p)
  <2>1. PanelsSound(panel', saved)
    BY <1>1, <1>5, NewControllersAreSound, PanelStepKeeps DEF Open
  <2> QED BY <1>1, <1>4, <1>5, <2>1, PartsOfIInvNext DEF Open
<1>6. CASE LoadWip(p)
  <2> DEFINE first == [c EXCEPT !.load = "answered", !.answer = RowVersion]
             second == [c EXCEPT !.replace = "answered", !.answer = RowVersion]
  <2>1. /\ first \in Controller /\ first.load = "answered" /\ first.answer = Len(saved)
        /\ first.draft = c.draft /\ first.base = c.base /\ first.rowVersion = c.rowVersion
        /\ first.sent = c.sent /\ first.sequence = c.sequence
        /\ first.savedSequence = c.savedSequence /\ first.sentSequence = c.sentSequence
        /\ first.ready = c.ready /\ first.post = c.post
    BY <1>2, <1>3 DEF Controller, Versions, RowVersion
  <2>2. /\ second \in Controller /\ second.load = c.load /\ second.answer = Len(saved)
        /\ second.draft = c.draft /\ second.base = c.base /\ second.rowVersion = c.rowVersion
        /\ second.sent = c.sent /\ second.sequence = c.sequence
        /\ second.savedSequence = c.savedSequence /\ second.sentSequence = c.sentSequence
        /\ second.ready = c.ready /\ second.post = c.post
    BY <1>2, <1>3 DEF Controller, Versions, RowVersion
  <2>3. \/ c.load = "asked" /\ Only(p, first)
        \/ Only(p, second)
    BY <1>6 DEF LoadWip, c
  <2> HIDE DEF first, second
  <2>4. c.load = "asked" => SoundAlone(first) /\ SoundAgainst(first, saved)
    BY <1>2, <1>3, <2>1 DEF SoundAlone, SoundAgainst, Dirty
  <2>5. SoundAlone(second) /\ SoundAgainst(second, saved)
    BY <1>2, <1>3, <2>2 DEF SoundAlone, SoundAgainst, Dirty
  <2>6. PanelsSound(panel', saved)
    BY <2>3, <2>4, <2>5, PanelStepKeeps
  <2> QED BY <1>1, <1>4, <1>6, <2>6, PartsOfIInvNext DEF LoadWip
<1>7. CASE LoadSaved(p)
  <2> DEFINE d == RestoredWork(c)
  <2>1. /\ c.load = "answered" /\ Only(p, TokenRefreshed(d)) /\ backup' = RefreshedBackup(d)
    BY <1>7 DEF LoadSaved, c
  <2>2. SoundAlone(d) /\ SoundAgainst(d, saved)
    BY <1>1, <1>2, <2>1, RestoredWorkIsSound DEF RowsSound
  <2> HIDE DEF d
  <2>3. PanelsSound(panel', saved)
    BY <2>1, <2>2, TokenRefreshedIsSound, PanelStepKeeps
  <2>4. Kept(backup', saved, lastChanged)
    BY <1>1, <2>1, <2>2, RefreshedBackupIsSound
  <2> QED BY <1>1, <1>4, <2>3, <2>4, PartsOfIInvNext
<1>8. CASE SeeRecord(p)
  <2> DEFINE d == [c EXCEPT !.onScreen = record]
  <2>1. /\ Only(p, TokenRefreshed(d))
        /\ backup' = RefreshedBackup(d) \/ backup' = backup
    BY <1>8 DEF SeeRecord, c
  <2>2. /\ d \in Controller /\ d.load = c.load /\ d.answer = c.answer
        /\ d.draft = c.draft /\ d.base = c.base /\ d.rowVersion = c.rowVersion
        /\ d.sent = c.sent /\ d.sequence = c.sequence
        /\ d.savedSequence = c.savedSequence /\ d.sentSequence = c.sentSequence
        /\ d.ready = c.ready /\ d.post = c.post
    BY <1>1, <1>2 DEF Controller
  <2> HIDE DEF d
  <2>3. SoundAlone(d) /\ SoundAgainst(d, saved)
    BY <1>2, <2>2, OtherFieldsDoNotMatter
  <2>4. PanelsSound(panel', saved)
    BY <2>1, <2>3, TokenRefreshedIsSound, PanelStepKeeps
  <2>5. Kept(backup', saved, lastChanged)
    BY <1>1, <2>1, <2>3, RefreshedBackupIsSound
  <2> QED BY <1>1, <1>4, <2>4, <2>5, PartsOfIInvNext
<1> QED BY <1>5, <1>6, <1>7, <1>8

\* A change of an entry: the backup and the last change are the new draft.
LEMMA ChangedKeepsSound ==
    ASSUME IInv, NEW p \in Panels, NEW c, NEW draft \in Draft, NEW onScreen \in 1..MaxRecord,
           SoundAlone(c), SoundAgainst(c, saved), c.ready, Reviewed(draft),
           Changed(p, [c EXCEPT !.draft = draft, !.onScreen = onScreen])
    PROVE  /\ PanelsSound(panel', saved)
           /\ Kept(backup', saved, lastChanged')
           /\ lastChanged' \in Texts /\ changes' \in 0..MaxChanges
<1> DEFINE d == Touched(c, draft, onScreen)
           e == [c EXCEPT !.draft = draft, !.onScreen = onScreen]
<1>1. c \in Controller
  BY DEF SoundAlone
<1>2. SoundAlone(d) /\ SoundAgainst(d, saved) /\ d.draft = draft
  BY ChangedIsSound
<1>3. [e EXCEPT !.sequence = @ + 1, !.status = "queued", !.timer = TRUE] = d
  BY <1>1 DEF Controller, Touched
<1>4. /\ Only(p, d) /\ backup' = keepBackup(d, TRUE) /\ lastChanged' = d.draft.text
      /\ CanChange /\ changes' = changes + 1
  BY <1>3 DEF Changed
<1> HIDE DEF d, e
<1>5. draft.text \in Texts
  BY DEF Draft
<1>6. Kept(backup', saved, lastChanged')
  BY <1>2, <1>4, KeptBackupIsSound DEF Kept
<1>7. changes \in 0..MaxChanges
  BY PartsOfIInv DEF CountersTyped
<1>8. changes' \in 0..MaxChanges
  BY <1>4, <1>7, BoundsAssumption DEF CanChange
<1> QED BY <1>2, <1>4, <1>5, <1>6, <1>8, PanelStepKeeps

LEMMA ChangesKeepSound ==
    ASSUME IInv, NEW p \in Panels, Change(p) \/ Acknowledge(p) \/ RecordAction(p)
    PROVE  IInv'
<1> DEFINE c == panel[p]
<1>1. /\ RowsSound(saved) /\ Kept(backup, saved, lastChanged) /\ \A s \in delayed : OwnBase(s)
      /\ PanelsSound(panel, saved) /\ CountersTyped(record, lastChanged, changes, faults)
      /\ record \in 1..MaxRecord /\ faults \in 0..MaxFaults
  BY PartsOfIInv DEF CountersTyped
<1>2. SoundAlone(c) /\ SoundAgainst(c, saved) /\ c \in Controller
  BY <1>1 DEF PanelsSound
<1> HIDE DEF c
<1>3. CASE Change(p)
  <2> DEFINE d == TokenRefreshed(c)
  <2>1. PICK t \in Texts : Changed(p, [d EXCEPT !.draft.text = t])
    BY <1>3 DEF Change, c
  <2>2. SoundAlone(d) /\ SoundAgainst(d, saved) /\ d.ready
    BY <1>2, <1>3, TokenRefreshedIsSound DEF Change, c
  <2> HIDE DEF d
  <2>3. d \in Controller /\ d.draft \in Draft /\ d.onScreen \in 1..MaxRecord /\ Reviewed(d.draft)
    BY <2>2 DEF SoundAlone, Controller
  <2> DEFINE draft == [d.draft EXCEPT !.text = t]
  <2>4. draft \in Draft /\ Reviewed(draft)
    BY <2>3 DEF Draft, Reviewed
  <2>5. [d EXCEPT !.draft.text = t] = [d EXCEPT !.draft = draft, !.onScreen = d.onScreen]
    BY <2>3 DEF Controller, Draft
  <2> HIDE DEF draft
  <2>6. UNCHANGED <<saved, record, delayed, faults>>
    BY <1>3 DEF Change
  <2> QED BY <1>1, <2>1, <2>2, <2>3, <2>4, <2>5, <2>6, ChangedKeepsSound, PartsOfIInvNext
          DEF CountersTyped
<1>4. CASE Acknowledge(p)
  <2> DEFINE draft == [c.draft EXCEPT !.token = c.onScreen, !.reviewed = c.onScreen]
  <2>1. c.draft \in Draft /\ c.onScreen \in 1..MaxRecord
    BY <1>2 DEF Controller
  <2>2. draft \in Draft /\ Reviewed(draft)
    BY <2>1 DEF Draft, Reviewed
  <2>3. [c EXCEPT !.draft.token = c.onScreen, !.draft.reviewed = c.onScreen]
           = [c EXCEPT !.draft = draft, !.onScreen = c.onScreen]
    BY <1>2, <2>1 DEF Controller, Draft
  <2>4. c.ready /\ Changed(p, [c EXCEPT !.draft.token = c.onScreen, !.draft.reviewed = c.onScreen])
        /\ UNCHANGED <<saved, record, delayed, faults>>
    BY <1>4 DEF Acknowledge, c
  <2> HIDE DEF draft
  <2> QED BY <1>1, <1>2, <2>1, <2>2, <2>3, <2>4, ChangedKeepsSound, PartsOfIInvNext
          DEF CountersTyped
<1>5. CASE RecordAction(p)
  <2>1. /\ c.ready /\ record < MaxRecord /\ record' = record + 1 /\ UNCHANGED <<saved, delayed>>
        /\ \/ Changed(p, [c EXCEPT !.draft.token = record + 1, !.draft.reviewed = record + 1,
                                   !.onScreen = record + 1]) /\ UNCHANGED faults
           \/ faults < MaxFaults /\ faults' = faults + 1
              /\ UNCHANGED <<panel, backup, lastChanged, changes>>
    BY <1>5 DEF RecordAction, c
  <2>2. record + 1 \in 1..MaxRecord
    BY <1>1, <2>1, BoundsAssumption
  <2>3. CASE faults < MaxFaults /\ faults' = faults + 1
             /\ UNCHANGED <<panel, backup, lastChanged, changes>>
    <3>1. faults' \in 0..MaxFaults
      BY <1>1, <2>3, BoundsAssumption
    <3> QED BY <1>1, <2>1, <2>2, <2>3, <3>1, PartsOfIInvNext DEF CountersTyped
  <2>4. CASE Changed(p, [c EXCEPT !.draft.token = record + 1, !.draft.reviewed = record + 1,
                                  !.onScreen = record + 1]) /\ UNCHANGED faults
    <3> DEFINE n == record + 1
               draft == [c.draft EXCEPT !.token = n, !.reviewed = n]
    <3> HIDE DEF n
    <3>1. n \in 1..MaxRecord /\ c.draft \in Draft
      BY <1>2, <2>2 DEF Controller, n
    <3>2. draft \in Draft /\ Reviewed(draft)
      BY <3>1 DEF Draft, Reviewed
    <3>3. [c EXCEPT !.draft.token = n, !.draft.reviewed = n, !.onScreen = n]
             = [c EXCEPT !.draft = draft, !.onScreen = n]
      BY <1>2, <3>1 DEF Controller, Draft
    <3>4. Changed(p, [c EXCEPT !.draft = draft, !.onScreen = n])
      BY <2>4, <3>3 DEF n
    <3> HIDE DEF draft
    <3> QED BY <1>1, <1>2, <2>1, <2>2, <2>4, <3>1, <3>2, <3>4, ChangedKeepsSound, PartsOfIInvNext
            DEF CountersTyped
  <2> QED BY <2>1, <2>3, <2>4
<1> QED BY <1>3, <1>4, <1>5

\* The save chain: what is queued, taken by the server, and answered.
LEMMA SavingKeepsSound ==
    ASSUME IInv, NEW p \in Panels,
           \/ QueueSave(p) \/ Serve(p) \/ SaveConfirmed(p)
           \/ SaveRefused(p) \/ SaveFailed(p)
    PROVE  IInv'
<1> DEFINE c == panel[p]
<1>1. /\ RowsSound(saved) /\ Kept(backup, saved, lastChanged) /\ \A s \in delayed : OwnBase(s)
      /\ PanelsSound(panel, saved) /\ CountersTyped(record, lastChanged, changes, faults)
      /\ saved \in Seq(Save) /\ faults \in 0..MaxFaults
  BY PartsOfIInv DEF RowsSound, CountersTyped
<1>2. SoundAlone(c) /\ SoundAgainst(c, saved) /\ c \in Controller
  BY <1>1 DEF PanelsSound
<1> HIDE DEF c
<1>3. CASE QueueSave(p)
  <2>1. c.queue < 2 /\ Only(p, Enqueued(c))
        /\ UNCHANGED <<saved, backup, record, delayed, lastChanged, changes, faults>>
    BY <1>3 DEF QueueSave, c
  <2>2. PanelsSound(panel', saved)
    BY <1>2, <2>1, EnqueuedIsSound, PanelStepKeeps
  <2> QED BY <1>1, <2>1, <2>2, PartsOfIInvNext
<1>4. CASE Serve(p)
  <2> DEFINE post == IF c.post = "sent" /\ c.sent.expected = RowVersion
                     THEN "accepted" ELSE "refused"
             d == [c EXCEPT !.post = post]
  <2>1. /\ c.post = "sent" /\ SaveWip(c.sent) /\ Only(p, [c EXCEPT !.post =
                  IF @ = "sent" /\ c.sent.expected = RowVersion
                  THEN "accepted" ELSE "refused"])
        /\ UNCHANGED <<backup, record, delayed, lastChanged, changes, faults>>
    BY <1>4 DEF Serve, c
  <2>2. Only(p, d)
    <3>1. [c EXCEPT !.post = IF @ = "sent" /\ c.sent.expected = RowVersion
                             THEN "accepted" ELSE "refused"] = d
      BY <1>2 DEF Controller
    <3> QED BY <2>1, <3>1
  <2>3. OwnBase(c.sent)
    BY <1>2 DEF SoundAlone
  <2>4. /\ RowsSound(saved') /\ PanelsSound(panel, saved')
        /\ Kept(backup, saved', lastChanged)
        /\ c.sent.expected = Len(saved) => Took(saved', c.sent)
        /\ SoundAgainst(c, saved')
    BY <1>1, <1>2, <2>1, <2>3, ServedRowsAreSound
  <2>5. post \in {"accepted", "refused"} /\ (post = "accepted" => Took(saved', c.sent))
    BY <2>4 DEF RowVersion
  <2> HIDE DEF post
  <2>6. /\ d \in Controller /\ d.load = c.load /\ d.answer = c.answer
        /\ d.draft = c.draft /\ d.base = c.base /\ d.rowVersion = c.rowVersion
        /\ d.sent = c.sent /\ d.sequence = c.sequence
        /\ d.savedSequence = c.savedSequence /\ d.sentSequence = c.sentSequence
        /\ d.ready = c.ready /\ d.post = post
    BY <1>2, <2>5 DEF Controller
  <2> HIDE DEF d
  <2>7. SoundAlone(d)
    BY <1>2, <2>1, <2>6 DEF SoundAlone
  <2>8. SoundAgainst(d, saved')
    BY <2>4, <2>5, <2>6 DEF SoundAgainst, Dirty
  <2>9. PanelsSound(panel', saved')
    <3>1. saved' \in Seq(Save) /\ record \in 1..MaxRecord
      BY <1>1, <2>4 DEF RowsSound, CountersTyped
    <3>2. panel \in [Panels -> Controller]
          /\ \A q \in Panels : SoundAlone(panel[q]) /\ SoundAgainst(panel[q], saved')
      BY <2>4 DEF PanelsSound
    <3> QED BY <2>2, <2>7, <2>8, <3>1, <3>2, OnlyKeepsSound DEF PanelsSound
  <2> QED BY <1>1, <2>1, <2>4, <2>9, PartsOfIInvNext
<1>5. CASE SaveConfirmed(p)
  <2> DEFINE d == Confirmed(c)
             unsent == c.sequence # c.sentSequence
  <2>1. /\ c.post = "accepted" /\ Only(p, d) /\ backup' = confirmBackup(d, unsent)
        /\ UNCHANGED <<saved, record, delayed, lastChanged, changes, faults>>
    BY <1>5 DEF SaveConfirmed, c
  <2>2. /\ SoundAlone(d) /\ SoundAgainst(d, saved)
        /\ d.draft = c.draft /\ d.rowVersion \in 1..Len(saved)
        /\ saved[d.rowVersion].draft.text = c.sent.draft.text
        /\ c.sequence = c.sentSequence => c.sent.draft.text = c.draft.text
    BY <1>1, <1>2, <2>1, ConfirmedIsSound
  <2>3. unsent \in BOOLEAN /\ (~unsent => c.sequence = c.sentSequence)
    OBVIOUS
  <2> HIDE DEF d, unsent
  <2>4. CASE ~\E b \in backup : SameValues(b.draft, d.draft)
    <3>1. backup' = backup
      BY <2>1, <2>4 DEF confirmBackup
    <3> QED BY <1>1, <2>1, <2>2, <3>1, PanelStepKeeps, PartsOfIInvNext
  <2>5. CASE \E b \in backup : SameValues(b.draft, d.draft)
    <3>1. PICK b \in backup : SameValues(b.draft, d.draft)
      BY <2>5
    <3>2. d.draft.text = lastChanged
      BY <1>1, <3>1 DEF Kept, SoundBackup, SameValues
    <3>3. backup' = keepBackup(d, unsent)
      BY <2>1, <2>5 DEF confirmBackup
    <3>4. ~unsent => d.rowVersion \in 1..Len(saved)
                     /\ saved[d.rowVersion].draft.text = lastChanged
      BY <2>2, <2>3, <3>2
    <3>5. Kept(backup', saved, lastChanged)
      BY <2>2, <2>3, <3>2, <3>3, <3>4, KeptBackupIsSound DEF Kept
    <3> QED BY <1>1, <2>1, <2>2, <3>5, PanelStepKeeps, PartsOfIInvNext
  <2> QED BY <2>4, <2>5
<1>6. CASE SaveRefused(p) \/ SaveFailed(p)
  <2> DEFINE a == Answered(c)
  <2>1. PICK status \in Statuses : Only(p, [a EXCEPT !.status = status])
    <3>1. SoundAlone(a)
      BY <1>2, AnsweredIsSound
    <3>2. a \in Controller
      BY <3>1 DEF SoundAlone
    <3> HIDE DEF a
    <3>3. /\ [a EXCEPT !.status = IF c.life = "mounted" THEN "conflict" ELSE @]
                = [a EXCEPT !.status = IF c.life = "mounted" THEN "conflict" ELSE a.status]
          /\ [a EXCEPT !.status = IF c.life = "mounted" THEN "failed" ELSE @]
                = [a EXCEPT !.status = IF c.life = "mounted" THEN "failed" ELSE a.status]
      BY <3>2 DEF Controller
    <3>4. /\ (IF c.life = "mounted" THEN "conflict" ELSE a.status) \in Statuses
          /\ (IF c.life = "mounted" THEN "failed" ELSE a.status) \in Statuses
      BY <3>2 DEF Controller, Statuses
    <3>5. \/ Only(p, [a EXCEPT !.status = IF c.life = "mounted" THEN "conflict" ELSE @])
          \/ Only(p, [a EXCEPT !.status = IF c.life = "mounted" THEN "failed" ELSE @])
      BY <1>6 DEF SaveRefused, SaveFailed, c, a
    <3> QED BY <3>3, <3>4, <3>5
  <2> DEFINE d == [a EXCEPT !.status = status]
  <2>2. SoundAlone(a) /\ SoundAgainst(a, saved) /\ a \in Controller
    BY <1>2, AnsweredIsSound DEF SoundAlone
  <2> HIDE DEF a
  <2>3. /\ d \in Controller /\ d.load = a.load /\ d.answer = a.answer
        /\ d.draft = a.draft /\ d.base = a.base /\ d.rowVersion = a.rowVersion
        /\ d.sent = a.sent /\ d.sequence = a.sequence
        /\ d.savedSequence = a.savedSequence /\ d.sentSequence = a.sentSequence
        /\ d.ready = a.ready /\ d.post = a.post
    BY <2>2 DEF Controller
  <2> HIDE DEF d
  <2>4. SoundAlone(d) /\ SoundAgainst(d, saved)
    BY <2>2, <2>3, OtherFieldsDoNotMatter
  <2>5. PanelsSound(panel', saved)
    BY <2>1, <2>4, PanelStepKeeps DEF d
  <2>6. /\ UNCHANGED <<saved, backup, record, lastChanged, changes>>
        /\ \A s \in delayed' : OwnBase(s)
        /\ faults' \in 0..MaxFaults
    <3>1. OwnBase(c.sent)
      BY <1>2 DEF SoundAlone
    <3>2. CASE SaveRefused(p)
      BY <1>1, <3>2 DEF SaveRefused
    <3>3. CASE SaveFailed(p)
      <4>1. delayed' \subseteq delayed \cup {c.sent}
        BY <3>3 DEF SaveFailed, c
      <4>2. faults' \in 0..MaxFaults
        BY <1>1, <3>3, BoundsAssumption DEF SaveFailed
      <4> QED BY <1>1, <3>1, <3>3, <4>1, <4>2 DEF SaveFailed
    <3> QED BY <1>6, <3>2, <3>3
  <2> QED BY <1>1, <2>5, <2>6, PartsOfIInvNext DEF CountersTyped
<1> QED BY <1>3, <1>4, <1>5, <1>6

\* Choosing to replace the server's draft, and leaving a form.
LEMMA LeavingKeepsSound ==
    ASSUME IInv, NEW p \in Panels,
           AskReplace(p) \/ OverwriteWithLatestBase(p) \/ Unmount(p) \/ TabDies(p)
    PROVE  IInv'
<1> DEFINE c == panel[p]
<1>1. /\ RowsSound(saved) /\ Kept(backup, saved, lastChanged) /\ \A s \in delayed : OwnBase(s)
      /\ PanelsSound(panel, saved) /\ CountersTyped(record, lastChanged, changes, faults)
      /\ saved \in Seq(Save) /\ faults \in 0..MaxFaults /\ record \in 1..MaxRecord
  BY PartsOfIInv DEF RowsSound, CountersTyped
<1>2. SoundAlone(c) /\ SoundAgainst(c, saved) /\ c \in Controller
  BY <1>1 DEF PanelsSound
<1> HIDE DEF c
<1>3. CASE AskReplace(p)
  <2> DEFINE d == [c EXCEPT !.replace = "asked"]
  <2>1. /\ d \in Controller /\ d.load = c.load /\ d.answer = c.answer
        /\ d.draft = c.draft /\ d.base = c.base /\ d.rowVersion = c.rowVersion
        /\ d.sent = c.sent /\ d.sequence = c.sequence
        /\ d.savedSequence = c.savedSequence /\ d.sentSequence = c.sentSequence
        /\ d.ready = c.ready /\ d.post = c.post
    BY <1>2 DEF Controller
  <2>2. Only(p, d) /\ UNCHANGED <<saved, backup, record, delayed, lastChanged, changes, faults>>
    BY <1>3 DEF AskReplace, c
  <2> HIDE DEF d
  <2>3. SoundAlone(d) /\ SoundAgainst(d, saved)
    BY <1>2, <2>1, OtherFieldsDoNotMatter
  <2> QED BY <1>1, <2>2, <2>3, PanelStepKeeps, PartsOfIInvNext
<1>4. CASE OverwriteWithLatestBase(p)
  <2> DEFINE d == [c EXCEPT !.replace = "none", !.answer = 0,
                            !.rowVersion = c.answer, !.base = c.answer]
  <2>1. /\ d \in Controller /\ d.load = c.load /\ d.answer = 0
        /\ d.draft = c.draft /\ d.base = c.answer /\ d.rowVersion = c.answer
        /\ d.sent = c.sent /\ d.sequence = c.sequence
        /\ d.savedSequence = c.savedSequence /\ d.sentSequence = c.sentSequence
        /\ d.ready = c.ready /\ d.post = c.post /\ d.queue = c.queue
    BY <1>2 DEF Controller, Versions
  <2>2. /\ c.queue < 2 /\ Only(p, Enqueued(d))
        /\ UNCHANGED <<saved, backup, record, delayed, lastChanged, changes, faults>>
    BY <1>4 DEF OverwriteWithLatestBase, c
  <2> HIDE DEF d
  <2>3. SoundAlone(d) /\ SoundAgainst(d, saved)
    BY <1>1, <1>2, <2>1, LenProperties DEF SoundAlone, SoundAgainst, Dirty
  <2>4. PanelsSound(panel', saved)
    BY <2>1, <2>2, <2>3, EnqueuedIsSound, PanelStepKeeps
  <2> QED BY <1>1, <2>2, <2>4, PartsOfIInvNext
<1>5. CASE Unmount(p)
  <2> DEFINE e == Enqueued(c)
             d == [e EXCEPT !.life = "left", !.status = "loading",
                            !.load = "none", !.replace = "none", !.answer = 0]
  <2>1. /\ c.queue < 2 /\ Only(p, d)
        /\ UNCHANGED <<saved, backup, record, delayed, lastChanged, changes, faults>>
    BY <1>5 DEF Unmount, c
  <2>2. SoundAlone(e) /\ SoundAgainst(e, saved)
    BY <1>2, <2>1, EnqueuedIsSound
  <2>3. e \in Controller
    BY <2>2 DEF SoundAlone
  <2> HIDE DEF e
  <2>4. /\ d \in Controller /\ d.load = "none" /\ d.answer = 0
        /\ d.draft = e.draft /\ d.base = e.base /\ d.rowVersion = e.rowVersion
        /\ d.sent = e.sent /\ d.sequence = e.sequence
        /\ d.savedSequence = e.savedSequence /\ d.sentSequence = e.sentSequence
        /\ d.ready = e.ready /\ d.post = e.post
    BY <2>3 DEF Controller, Versions, Statuses
  <2> HIDE DEF d
  <2>5. SoundAlone(d) /\ SoundAgainst(d, saved)
    BY <1>1, <2>2, <2>4, LenProperties DEF SoundAlone, SoundAgainst, Dirty
  <2> QED BY <1>1, <2>1, <2>5, PanelStepKeeps, PartsOfIInvNext
<1>6. CASE TabDies(p)
  <2>1. Only(p, Closed) /\ UNCHANGED <<saved, backup, record, lastChanged, changes>>
    BY <1>6 DEF TabDies
  <2>2. PanelsSound(panel', saved)
    BY <1>1, <2>1, NewControllersAreSound, PanelStepKeeps
  <2>3. OwnBase(c.sent)
    BY <1>2 DEF SoundAlone
  <2>4. delayed' \subseteq delayed \cup {c.sent}
    BY <1>6 DEF TabDies, c
  <2>5. faults' \in 0..MaxFaults
    BY <1>1, <1>6, BoundsAssumption DEF TabDies
  <2> QED BY <1>1, <2>1, <2>2, <2>3, <2>4, <2>5, PartsOfIInvNext DEF CountersTyped
<1> QED BY <1>3, <1>4, <1>5, <1>6

\* The steps of nobody's form.
LEMMA OthersKeepSound ==
    ASSUME IInv, ServeDelayed \/ RecordChanges \/ UNCHANGED vars
    PROVE  IInv'
<1>1. /\ RowsSound(saved) /\ Kept(backup, saved, lastChanged) /\ \A s \in delayed : OwnBase(s)
      /\ PanelsSound(panel, saved) /\ CountersTyped(record, lastChanged, changes, faults)
  BY PartsOfIInv
<1>2. CASE ServeDelayed
  <2>1. PICK s \in delayed :
            /\ delayed' = delayed \ {s} /\ SaveWip(s)
            /\ UNCHANGED <<backup, record, panel, lastChanged, changes, faults>>
    BY <1>2 DEF ServeDelayed
  <2> QED BY <1>1, <2>1, ServedRowsAreSound, PartsOfIInvNext
<1>3. CASE RecordChanges
  <2>1. record' \in 1..MaxRecord
    BY <1>1, <1>3, BoundsAssumption DEF RecordChanges, CountersTyped
  <2> QED BY <1>1, <1>3, <2>1, PartsOfIInvNext DEF RecordChanges, CountersTyped
<1>4. CASE UNCHANGED vars
  BY <1>1, <1>4, PartsOfIInvNext DEF vars
<1> QED BY <1>2, <1>3, <1>4

\* Every form, the backup, the row and what is on its way stay sound, over
\* every step of every tab and of the server.
THEOREM InductiveInvariant == Spec => []IInv
<1>1. IInv /\ [Next]_vars => IInv'
  BY LoadingKeepsSound, ChangesKeepSound, SavingKeepsSound, LeavingKeepsSound, OthersKeepSound
     DEF Next
<1> QED BY InitIsSound, <1>1, PTL DEF Spec

\* The backup holds the last change anybody made, and gives it up only for
\* the same text accepted by the server (confirmBackup, saved-work-controller.ts).
THEOREM LastChangeAlwaysSurvives == Spec => []LastChangeSurvives
<1>1. IInv => LastChangeSurvives
  BY DEF IInv, SoundBackup, LastChangeSurvives, RowVersion
<1> QED BY InductiveInvariant, <1>1, PTL

\* A form that says its draft is saved shows a text the server accepted.
THEOREM SavedAlwaysMeansAccepted == Spec => []SavedMeansAccepted
<1>1. IInv => SavedMeansAccepted
  BY DEF IInv, SoundAgainst, SavedMeansAccepted, RowVersion
<1> QED BY InductiveInvariant, <1>1, PTL

\* No save replaces a version of the row its user neither wrote on nor chose
\* to replace, through late saves, recoveries and tabs that died.
THEOREM NothingIsSilentlyReplaced == Spec => []NoSilentReplacement
<1>1. IInv => NoSilentReplacement
  BY DEF IInv
<1> QED BY InductiveInvariant, <1>1, PTL

\* An edited draft names the version of the record it was reviewed against.
THEOREM TokensWereAlwaysReviewed == Spec => []TokenWasReviewed
<1>1. IInv => TokenWasReviewed
  BY DEF IInv, SoundAlone, Reviewed, TokenWasReviewed
<1> QED BY InductiveInvariant, <1>1, PTL
=============================================================================
