-------------------------------- MODULE Bios --------------------------------
(***************************************************************************)
(* Community bios (db/queries/bios.rs, api/handlers/bios.rs) and the        *)
(* moderator's commands on them (db/queries/moderation.rs, `worker          *)
(* moderation`).  A bio is a list of revisions and the number of the one    *)
(* shown.  Every writer is a transaction that locks the bio's row: what it  *)
(* read before it had that lock may be old, and what it wrote is seen by    *)
(* the others when it commits.  One moderator command runs at a time.       *)
(***************************************************************************)
EXTENDS Integers, FiniteSets, SequencesExt

CONSTANTS
  Entities,             \* the artists and albums that have a bio
  Editors,              \* the accounts
  Texts,                \* what a bio may say
  ImportedTexts,        \* Last.fm's texts, among Texts
  HostsOf,              \* [Texts -> the hosts a text links]
  Repeated,             \* the texts that link one host over and over
  LongTexts,            \* the texts long enough for a copy to look like spam
  LINK_BIOS_PER_AUTHOR, \* bios an author may add one host to
  LINK_BIOS_PER_DAY,    \* bios anyone may
  EDITS_PER_DAY,        \* revisions of an account in a day
  EDITS_PER_BIO,        \* its revisions of one bio in a day
  Forced,               \* whether an import may replace an earlier import
  MaxRevisions,         \* bound: revisions in all
  MaxCommands           \* bound: the moderator's commands

ASSUME BiosAssumption ==
  /\ IsFiniteSet(Entities) /\ ImportedTexts \subseteq Texts /\ Forced \subseteq BOOLEAN
  /\ MaxCommands \in Nat

VARIABLES
  revisions,            \* bio_revisions, in the order of their ids
  shown,                \* [Entities -> entity_bios.revision_id, 0 for none]
  locked,               \* the bios a moderator locked
  suspended,            \* the accounts in editing_suspensions
  change,               \* [Editors -> the edit or revert in flight]
  importing,            \* the enrichment's import in flight
  command,              \* the moderator's command in flight
  commands              \* how many the moderator gave

biosVars == <<revisions, shown, locked, suspended, change, importing, command, commands>>

NoChange == [at |-> "none"]
RevisionIds == 1..Len(revisions)
Of(b) == {r \in RevisionIds : revisions[r].bio = b}

\* What a statement keeps of what it read, for the next one.
Hosts == UNION {HostsOf[t] : t \in Texts}
RevisionRows ==
  [bio : Entities, text : Texts, by : Editors \cup {"nobody"},
   kind : {"edit", "revert", "import", "moderation"},
   status : {"published", "held", "rejected"},
   hidden : BOOLEAN, parent : Nat, added : SUBSET Hosts]
Asked == [at : {"asked"}, bio : Entities, base : Nat, text : Texts, target : Nat]
Opened ==
  [at : {"open"}, bio : Entities, base : Nat, text : Texts,
   kind : {"edit", "revert"}, status : {"published", "held"}]
Waiting ==
  [at : {"waits"}, bio : Entities, text : ImportedTexts, force : BOOLEAN, head : Nat,
   edited : BOOLEAN]
Hiding == [at : {"hides"}, bio : Entities, rows : SUBSET Nat]
Restoring == [at : {"restores"}, bio : Entities, rows : SUBSET Nat, to : Nat]
Undoing == [at : {"undoes"}, who : Editors, heads : SUBSET (Entities \X Nat)]

\* Types; a bio shows a revision of its own.
BiosTypeOK ==
  /\ revisions \in Seq(RevisionRows)
  /\ \A r \in RevisionIds : revisions[r].parent < r
  /\ shown \in [Entities -> Nat] /\ \A b \in Entities : shown[b] \in Of(b) \cup {0}
  /\ locked \subseteq Entities /\ suspended \subseteq Editors
  /\ change \in [Editors -> {NoChange} \cup Asked \cup Opened]
  /\ importing \in {NoChange} \cup Waiting
  /\ command \in {NoChange} \cup Hiding \cup Restoring \cup Undoing
  /\ commands \in 0 .. MaxCommands

BiosInit ==
  /\ revisions = << >> /\ shown = [b \in Entities |-> 0]
  /\ locked = {} /\ suspended = {}
  /\ change = [e \in Editors |-> NoChange]
  /\ importing = NoChange /\ command = NoChange /\ commands = 0

(* ---- What the statements read. ---- *)

\* Nobody holds the bio's row: an open edit or revert does until it commits.
RowFree(b) == ~ \E e \in Editors : change[e].at = "open" /\ change[e].bio = b
TextOf(r) == IF r = 0 THEN "" ELSE revisions[r].text
HostsIn(r) == IF r = 0 THEN {} ELSE HostsOf[revisions[r].text]

Added(b, text) == HostsOf[text] \ HostsIn(shown[b])

\* hold_reason: an added link repeated in the text or pasted across bios, or
\* a long text another bio has.
Suspicious(e, b, text) ==
  LET added == Added(b, text)
      elsewhere == {r \in RevisionIds : revisions[r].bio # b /\ revisions[r].status # "rejected"}
      linking == {r \in elsewhere : revisions[r].added \cap added # {}}
      bios(rows) == Cardinality({revisions[r].bio : r \in rows}) IN
    \/ text \in Repeated /\ added # {}
    \/ bios({r \in linking : revisions[r].by = e}) >= LINK_BIOS_PER_AUTHOR
    \/ bios(linking) >= LINK_BIOS_PER_DAY
    \/ text \in LongTexts /\ \E r \in elsewhere : revisions[r].text = text

Written(e) == {r \in RevisionIds : revisions[r].by = e}
CapReached(e, b) ==
  \/ Cardinality(Written(e)) >= EDITS_PER_DAY
  \/ Cardinality(Written(e) \cap Of(b)) >= EDITS_PER_BIO

Visible(r) == revisions[r].status = "published" /\ ~revisions[r].hidden

\* A new revision of b over the one shown.
Revision(b, text, by, kind, status, added) ==
  [bio |-> b, text |-> text, by |-> by, kind |-> kind, status |-> status,
   hidden |-> FALSE, parent |-> shown[b], added |-> added]

Room == Len(revisions) < MaxRevisions

(* ---- Edits and reverts. ---- *)

\* The client has read the bio, and may_write finds the account in good
\* standing: both before the transaction.
Ask(e, b, text, target) ==
  /\ change[e].at = "none" /\ e \notin suspended /\ Room
  /\ change' = [change EXCEPT ![e] = [at |-> "asked", bio |-> b, base |-> shown[b],
                                     text |-> text, target |-> target]]
  /\ UNCHANGED <<revisions, shown, locked, suspended, importing, command, commands>>

AskEdit(e) == \E b \in Entities, text \in Texts \ ImportedTexts : Ask(e, b, text, 0)
AskRevert(e) == \E b \in Entities : \E target \in Of(b) : Ask(e, b, TextOf(target), target)

Refused(e) ==
  LET c == change[e] IN
    \/ c.bio \in locked
    \/ shown[c.bio] # c.base
    \/ CapReached(e, c.bio)
    \/ TextOf(shown[c.bio]) = c.text
    \/ c.target # 0 /\ ~Visible(c.target)

\* begin, and what edit and revert read under the row's lock.
Begin(e) ==
  LET c == change[e]
      held == c.target = 0 /\ Suspicious(e, c.bio, c.text) IN
    /\ c.at = "asked" /\ RowFree(c.bio)
    /\ change' = [change EXCEPT ![e] =
         IF Refused(e) THEN NoChange
         ELSE [at |-> "open", bio |-> c.bio, base |-> c.base, text |-> c.text,
               kind |-> IF c.target = 0 THEN "edit" ELSE "revert",
               status |-> IF held THEN "held" ELSE "published"]]
    /\ UNCHANGED <<revisions, shown, locked, suspended, importing, command, commands>>

Commit(e) ==
  LET c == change[e] IN
    /\ c.at = "open" /\ Room
    /\ revisions' = Append(revisions, Revision(c.bio, c.text, e, c.kind, c.status,
                                              Added(c.bio, c.text)))
    /\ shown' = IF c.status = "published"
                THEN [shown EXCEPT ![c.bio] = Len(revisions) + 1] ELSE shown
    /\ change' = [change EXCEPT ![e] = NoChange]
    /\ UNCHANGED <<locked, suspended, importing, command, commands>>

\* The connection fails: the transaction is rolled back.
RollBack(e) ==
  /\ change[e].at = "open"
  /\ change' = [change EXCEPT ![e] = NoChange]
  /\ UNCHANGED <<revisions, shown, locked, suspended, importing, command, commands>>

(* ---- Last.fm's text of an artist. ---- *)

\* A person has edited the bio, or a moderator hid some of its text.
Edited(b) == \E r \in Of(b) :
  revisions[r].hidden \/ (revisions[r].kind # "import" /\ revisions[r].status = "published")

\* What import does once it has the row: `edited` and `body` are what its one
\* SELECT ... FOR UPDATE read, of the other table, when it began.
ImportOver(b, text, force, edited, body) ==
  /\ IF edited \/ b \in locked \/ (shown[b] # 0 /\ ~force) \/ body = text \/ ~Room
     THEN UNCHANGED <<revisions, shown>>
     ELSE /\ revisions' = Append(revisions,
                                Revision(b, text, "nobody", "import", "published", {}))
          /\ shown' = [shown EXCEPT ![b] = Len(revisions) + 1]
  /\ UNCHANGED <<locked, suspended, change, command, commands>>

Import ==
  \E b \in Entities, text \in ImportedTexts, force \in Forced :
    /\ importing.at = "none"
    /\ IF RowFree(b)
       THEN ImportOver(b, text, force, Edited(b), TextOf(shown[b])) /\ UNCHANGED importing
       ELSE /\ importing' = [at |-> "waits", bio |-> b, text |-> text, force |-> force,
                             head |-> shown[b], edited |-> Edited(b)]
            /\ UNCHANGED <<revisions, shown, locked, suspended, change, command, commands>>

\* The row is free: PostgreSQL reads it again, and not the rows of the
\* revisions, whose text is no longer joined when the row names another.
ImportWaited ==
  LET i == importing
      body == IF shown[i.bio] = i.head THEN TextOf(i.head) ELSE "" IN
    /\ i.at = "waits" /\ RowFree(i.bio)
    /\ ImportOver(i.bio, i.text, i.force, i.edited, body)
    /\ importing' = NoChange

(* ---- The moderator's commands. ---- *)

Give == command.at = "none" /\ commands < MaxCommands /\ commands' = commands + 1
Marked(rows) == [r \in RevisionIds |-> [revisions[r] EXCEPT !.hidden = @ \/ r \in rows]]

\* Variant of LastGood: the latest published one, hidden or not.
LastPublished(b, before, rows, gone) ==
  LET good == {r \in Of(b) : r < before /\ revisions[r].status = "published"
                             /\ revisions[r].by \notin gone} IN
    IF good = {} THEN 0 ELSE Max(good)

\* last_good: the latest revision before `before` that may be shown, in the
\* eyes of a transaction that hid `rows` and suspended `gone`.
LastGood(b, before, rows, gone) ==
  LET good == {r \in Of(b) : r < before /\ Visible(r) /\ r \notin rows
                             /\ revisions[r].by \notin gone} IN
    IF good = {} THEN 0 ELSE Max(good)

\* hide marks every revision of the bio with that text.
Hide(r) ==
  /\ Give
  /\ command' = [at |-> "hides", bio |-> revisions[r].bio,
                 rows |-> {s \in Of(revisions[r].bio) : revisions[s].text = revisions[r].text}]
  /\ UNCHANGED <<revisions, shown, locked, suspended, change, importing>>

\* It looks at what the bio shows, without its row's lock.
HideLook ==
  LET b == command.bio
      head == shown[b] IN
    /\ command.at = "hides"
    /\ IF head # 0 /\ (head \in command.rows \/ revisions[head].hidden)
       THEN /\ command' = [at |-> "restores", bio |-> b, rows |-> command.rows,
                           to |-> LastGood(b, head, command.rows, suspended)]
            /\ UNCHANGED revisions
       ELSE /\ revisions' = Marked(command.rows) /\ command' = NoChange
    /\ UNCHANGED <<shown, locked, suspended, change, importing, commands>>

\* restore, with the row's lock: over whatever the bio shows by now.
HideRestore ==
  LET b == command.bio
      to == command.to
      found == to # 0 /\ Visible(to) /\ to \notin command.rows IN
    /\ command.at = "restores" /\ RowFree(b)
    /\ revisions' = IF found
         THEN Append(Marked(command.rows),
                     Revision(b, TextOf(to), "nobody", "moderation", "published", {}))
         ELSE Marked(command.rows)
    /\ shown' = [shown EXCEPT ![b] = IF to = 0 THEN 0 ELSE IF found THEN Len(revisions) + 1 ELSE @]
    /\ command' = NoChange
    /\ UNCHANGED <<locked, suspended, change, importing, commands>>

Unhide(r) ==
  /\ Give /\ revisions[r].hidden
  /\ revisions' = [revisions EXCEPT ![r].hidden = FALSE]
  /\ UNCHANGED <<shown, locked, suspended, change, importing, command>>

\* decide: publish a held edit written over what the bio shows, or by force.
Approve(r, force) ==
  LET b == revisions[r].bio IN
    /\ Give /\ revisions[r].status = "held" /\ ~revisions[r].hidden /\ RowFree(b)
    /\ shown[b] = revisions[r].parent \/ force
    /\ revisions' = [revisions EXCEPT ![r].status = "published"]
    /\ shown' = [shown EXCEPT ![b] = r]
    /\ UNCHANGED <<locked, suspended, change, importing, command>>

Reject(r) ==
  /\ Give /\ revisions[r].status = "held"
  /\ revisions' = [revisions EXCEPT ![r].status = "rejected"]
  /\ UNCHANGED <<shown, locked, suspended, change, importing, command>>

\* `moderation revert`: lock or not.
PutBack(b, to) ==
  /\ Give /\ RowFree(b) /\ Visible(to)
  /\ revisions' = Append(revisions,
                        Revision(b, TextOf(to), "nobody", "moderation", "published", {}))
  /\ shown' = [shown EXCEPT ![b] = Len(revisions) + 1]
  /\ UNCHANGED <<locked, suspended, change, importing, command>>

LockOrUnlock(b) ==
  /\ Give /\ RowFree(b)
  /\ locked' = IF b \in locked THEN locked \ {b} ELSE locked \cup {b}
  /\ UNCHANGED <<revisions, shown, suspended, change, importing, command>>

\* suspend --undo finds the bios showing a suspended account's text.
Suspend(e) ==
  /\ Give /\ e \notin suspended
  /\ command' = [at |-> "undoes", who |-> e,
                 heads |-> {<<b, shown[b]>> : b \in {c \in Entities :
                   shown[c] # 0 /\ revisions[shown[c]].by \in suspended \cup {e}}}]
  /\ UNCHANGED <<revisions, shown, locked, suspended, change, importing>>

\* It restores each under its lock, and rejects the held edits.
SuspendUndo ==
  LET gone == suspended \cup {command.who}
      to(h) == LastGood(h[1], h[2], {}, gone)
      back == SetToSeq({h \in command.heads : to(h) # 0})
      decided == [r \in RevisionIds |->
        IF revisions[r].by = command.who /\ revisions[r].status = "held"
        THEN [revisions[r] EXCEPT !.status = "rejected"] ELSE revisions[r]] IN
    /\ command.at = "undoes" /\ \A h \in command.heads : RowFree(h[1])
    /\ revisions' = decided \o [n \in DOMAIN back |->
         Revision(back[n][1], TextOf(to(back[n])), "nobody", "moderation", "published", {})]
    /\ shown' = [b \in Entities |->
         IF \E n \in DOMAIN back : back[n][1] = b
         THEN Len(revisions) + CHOOSE n \in DOMAIN back : back[n][1] = b
         ELSE IF \E h \in command.heads : h[1] = b THEN 0 ELSE shown[b]]
    /\ suspended' = gone /\ command' = NoChange
    /\ UNCHANGED <<locked, change, importing, commands>>

\* unsuspend, or the suspension's end comes.
Unsuspend(e) ==
  /\ Give /\ e \in suspended
  /\ suspended' = suspended \ {e}
  /\ UNCHANGED <<revisions, shown, locked, change, importing, command>>

BiosNext ==
  \/ \E e \in Editors : AskEdit(e) \/ AskRevert(e) \/ Begin(e) \/ Commit(e) \/ RollBack(e)
                        \/ Suspend(e) \/ Unsuspend(e)
  \/ Import \/ ImportWaited
  \/ \E r \in RevisionIds : Hide(r) \/ Unhide(r) \/ Reject(r) \/ PutBack(revisions[r].bio, r)
                    \/ \E force \in BOOLEAN : Approve(r, force)
  \/ HideLook \/ HideRestore \/ SuspendUndo
  \/ \E b \in Entities : LockOrUnlock(b)

BiosSpec == BiosInit /\ [][BiosNext]_biosVars

(* ---- Properties. ---- *)

\* No bio shows a revision a moderator hid, whatever edits, reverts and imports
\* run beside the command that hides it.
HiddenIsNotShown == \A b \in Entities : shown[b] # 0 => ~revisions[shown[b]].hidden

\* Types; and a hidden revision is shown by no bio (moderation.rs, hide and restore).
BiosHold == BiosTypeOK /\ HiddenIsNotShown

\* Once a person's text of a bio was published, the bio never shows an import.
PeopleOverImports ==
  \A b \in Entities :
    (\E r \in Of(b) : revisions[r].kind # "import" /\ revisions[r].status = "published")
      => (shown[b] # 0 => revisions[shown[b]].kind # "import")

\* A text hidden in a bio is shown there again only as something written or
\* put back after it was hidden (hide's own doc says reverts copy the text,
\* and so it hides every copy).
HiddenTextIsGone ==
  command.at = "none" => \A b \in Entities :
    shown[b] # 0 /\ revisions[shown[b]].kind # "edit"
      => ~ \E r \in Of(b) : revisions[r].hidden /\ revisions[r].text = TextOf(shown[b])

=============================================================================
