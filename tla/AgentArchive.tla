---------------------------- MODULE AgentArchive ----------------------------
(***************************************************************************)
(* Cold storage (api/routes/agent/archive.ts): the archive_status column   *)
(* of an object and the storage class of its data in S3 are changed by     *)
(* different statements of the archive, restore and archive-status         *)
(* handlers.  Each SQL statement and each S3 call is one action; a handler *)
(* decides on the status it has read and then writes WHERE id = ... only.  *)
(***************************************************************************)
CONSTANTS
  Requests, Objects,
  Failing,  \* calls that may fail, of {"copy", "restore", "poll"}
  Crashes,  \* TRUE: a request may stop between any two statements
  Expires,  \* TRUE: the 7 days of a restored copy may pass
  Null

VARIABLES
  status,   \* agent_objects.archive_status
  deleted,  \* agent_objects.deleted_at IS NOT NULL
  class,    \* S3: "standard", "cold", "thawing" or "warm" (a restored copy)
  pc, object,  \* the next statement of each request, and its object
  mishaps   \* history: what has befallen each object so far

vars == <<status, deleted, class, pc, object, mishaps>>
locals == <<pc, object>>

Statuses == {"active", "archiving", "archived", "restoring"}
Classes == {"standard", "cold", "thawing", "warm"}
\* Two requests at work on the object at once; a request that stopped while at
\* work on it; a restore request that never reached S3; a copy to Glacier that
\* took effect although its call failed; a restored copy that was dropped; new
\* data written over an object that is not active.
Mishaps == {"overlap", "stop", "lost", "astray", "lapse", "overwritten"}
Labels == {"idle", "markArchiving", "copy", "undo", "markArchived", "audit",
           "markRestoring", "ask", "poll", "markActive"}

ASSUME ArchiveAssumption ==
  /\ Objects # {}
  /\ Failing \subseteq {"copy", "restore", "poll"}
  /\ Crashes \in BOOLEAN /\ Expires \in BOOLEAN /\ Null \notin Objects

Init ==
  /\ status = [o \in Objects |-> "active"]
  /\ deleted = [o \in Objects |-> FALSE]
  /\ class = [o \in Objects |-> "standard"]
  /\ pc = [r \in Requests |-> "idle"]
  /\ object = [r \in Requests |-> Null]
  /\ mishaps = [o \in Objects |-> {}]

\* What the history records of a step.
Befalls(o, what) == mishaps' = [mishaps EXCEPT ![o] = @ \cup what]

Goto(r, from, to) ==
  pc[r] = from /\ pc' = [pc EXCEPT ![r] = to] /\ UNCHANGED object
Reply(r, from) ==
  /\ pc[r] = from /\ pc' = [pc EXCEPT ![r] = "idle"]
  /\ object' = [object EXCEPT ![r] = Null]

\* The SELECT that a handler begins with, when it finds the object in one of
\* the statuses it goes on with; otherwise the answer is an error and nothing
\* has changed.
Begin(r, o, statuses, label) ==
  /\ pc[r] = "idle" /\ pc' = [pc EXCEPT ![r] = label]
  /\ object' = [object EXCEPT ![r] = o]
  /\ ~deleted[o] /\ status[o] \in statuses
  /\ Befalls(o, IF \E q \in Requests : object[q] = o THEN {"overlap"} ELSE {})
  /\ UNCHANGED <<status, deleted, class>>

\* UPDATE agent_objects SET archive_status = ... WHERE id = ...
SetStatus(r, s) ==
  /\ status' = [status EXCEPT ![object[r]] = s]
  /\ UNCHANGED <<deleted, class, mishaps>>

-----------------------------------------------------------------------------
(* POST /objects/:key/archive *)

Archivable == {"active"}

StartArchive(r, o) == Begin(r, o, Archivable, "markArchiving")

MarkArchiving(r) ==
  Goto(r, "markArchiving", "copy") /\ SetStatus(r, "archiving")

\* archiveToGlacier copies the data onto itself with a new class; S3 refuses to
\* copy what it cannot read.  The catch takes every failure of the call for a
\* copy that was not made, the answer that was lost or came too late as well.
Readable(c) == c \in {"standard", "warm"}
Freeze(o) == Readable(class[o]) /\ class' = [class EXCEPT ![o] = "cold"]

CopyToGlacier(r) ==
  /\ \/ /\ Goto(r, "copy", "markArchived") /\ Freeze(object[r])
        /\ UNCHANGED mishaps
     \/ /\ Goto(r, "copy", "undo") /\ UNCHANGED <<class, mishaps>>
        /\ "copy" \in Failing \/ ~Readable(class[object[r]])
     \/ /\ Goto(r, "copy", "undo") /\ Freeze(object[r])
        /\ "copy" \in Failing /\ Befalls(object[r], {"astray"})
  /\ UNCHANGED <<status, deleted>>

\* Mutants of AfterFailure: a status the column does not have, no rollback.
AfterFailureFailed == "failed"
AfterFailureNone == "archiving"

AfterFailure == "active"

UndoArchive(r) == Reply(r, "undo") /\ SetStatus(r, AfterFailure)

MarkArchived(r) == Goto(r, "markArchived", "audit") /\ SetStatus(r, "archived")

\* The audit row of archive and of restore gives the object's id as
\* namespace_id: the foreign key refuses it, and the failure is swallowed.
AuditArchive(r) == Reply(r, "audit") /\ UNCHANGED <<status, deleted, class, mishaps>>

(* POST /objects/:key/restore *)

Restorable == {"archived"}

StartRestore(r, o) == Begin(r, o, Restorable, "markRestoring")

MarkRestoring(r) == Goto(r, "markRestoring", "ask") /\ SetStatus(r, "restoring")

\* restoreFromGlacier; its failure is logged and otherwise ignored.
Asked(c) == IF c = "cold" THEN "thawing" ELSE c

AskRestore(r) ==
  /\ Goto(r, "ask", "audit")
  /\ \/ class' = [class EXCEPT ![object[r]] = Asked(@)] /\ UNCHANGED mishaps
     \/ "restore" \in Failing /\ UNCHANGED class /\ Befalls(object[r], {"lost"})
  /\ UNCHANGED <<status, deleted>>

(* GET /objects/:key/archive-status *)

StartStatus(r, o) == Begin(r, o, {"restoring"}, "poll")

\* Mutants of Ready: a restore under way is ready, a finished one is not.
ReadyEarly(c) == c \in {"thawing", "warm"}
ReadyNever(c) == c = "standard"

\* getRestoreStatus; if it fails the answer is the status in the database.
Ready(c) == c = "warm"

PollRestore(r) ==
  /\ \/ Ready(class[object[r]]) /\ Goto(r, "poll", "markActive")
     \/ ~Ready(class[object[r]]) /\ Reply(r, "poll")
     \/ "poll" \in Failing /\ Reply(r, "poll")
  /\ UNCHANGED <<status, deleted, class, mishaps>>

MarkActive(r) == Reply(r, "markActive") /\ SetStatus(r, "active")

-----------------------------------------------------------------------------
(* Around the handlers: the soft delete of AgentObjects, serac_store of the  *)
(* MCP server, a request that stops, and S3, which finishes a restore and    *)
(* drops the copy after 7 days.                                              *)
DeleteObject(o) ==
  /\ ~deleted[o] /\ deleted' = [deleted EXCEPT ![o] = TRUE]
  /\ UNCHANGED <<status, class, mishaps, locals>>

\* serac_store on a key that exists writes the data again, in the standard
\* class, and never looks at archive_status; the row it found may have been
\* deleted since.
Overwrite(o) ==
  /\ class' = [class EXCEPT ![o] = "standard"]
  /\ Befalls(o, IF status[o] = "active" THEN {} ELSE {"overwritten"})
  /\ UNCHANGED <<status, deleted, locals>>

Stop(r) ==
  /\ Crashes /\ pc[r] # "idle" /\ Reply(r, pc[r]) /\ Befalls(object[r], {"stop"})
  /\ UNCHANGED <<status, deleted, class>>

FinishRestore(o) ==
  /\ class[o] = "thawing" /\ class' = [class EXCEPT ![o] = "warm"]
  /\ UNCHANGED <<status, deleted, mishaps, locals>>

ExpireCopy(o) ==
  /\ Expires /\ class[o] = "warm" /\ class' = [class EXCEPT ![o] = "cold"]
  /\ Befalls(o, {"lapse"}) /\ UNCHANGED <<status, deleted, locals>>

Statement(r) ==
  \/ MarkArchiving(r) \/ CopyToGlacier(r) \/ UndoArchive(r) \/ MarkArchived(r)
  \/ AuditArchive(r) \/ MarkRestoring(r) \/ AskRestore(r)
  \/ pc[r] = "poll" /\ PollRestore(r)
  \/ MarkActive(r)

Next ==
  \/ \E r \in Requests :
       \/ \E o \in Objects : StartArchive(r, o) \/ StartRestore(r, o)
                               \/ StartStatus(r, o)
       \/ Statement(r) \/ Stop(r)
  \/ \E o \in Objects : DeleteObject(o) \/ Overwrite(o) \/ FinishRestore(o)
                          \/ ExpireCopy(o)

Spec == Init /\ [][Next]_vars

\* A poll that finds the copy ready; it is the one that S3 answered.
PollReady(o) == \E r \in Requests :
  object[r] = o /\ pc[r] = "poll" /\ PollRestore(r) /\ pc'[r] = "markActive"

\* A request that is running goes on and S3 finishes what it began; a client
\* that waits for a restore keeps asking for the status, as the header of the
\* file tells it to, and S3 does not refuse to answer for ever.
FairSpec ==
  /\ Spec
  /\ \A r \in Requests : WF_vars(Statement(r))
  /\ \A o \in Objects : /\ WF_vars(FinishRestore(o)) /\ SF_vars(PollReady(o))
                        /\ SF_vars(\E r \in Requests : StartStatus(r, o))

-----------------------------------------------------------------------------
(* Properties. *)

\* The type of every variable; the statuses are those of the CHECK of
\* migrations/020.
TypeOK ==
  /\ status \in [Objects -> Statuses] /\ deleted \in [Objects -> BOOLEAN]
  /\ class \in [Objects -> Classes] /\ mishaps \in [Objects -> SUBSET Mishaps]
  /\ pc \in [Requests -> Labels] /\ object \in [Requests -> Objects \cup {Null}]

Untouched(o) == \A r \in Requests : object[r] # o

\* Once no request is at work on an object, its status says where its data is,
\* whatever failed or stopped on the way.  The data of an active object can be
\* read, unless two requests were at work on it together, a copy went astray or
\* S3 dropped a restored copy; that of an archived object is cold, unless two
\* requests were at work on it together or it was written over.  Each of these
\* does part the two, and no statement looks at the status again.
StatusTruthful ==
  \A o \in Objects :
    Untouched(o) =>
      /\ status[o] = "active" =>
           \/ Readable(class[o])
           \/ mishaps[o] \cap {"overlap", "astray", "lapse"} # {}
      /\ status[o] = "archived" =>
           \/ class[o] = "cold"
           \/ mishaps[o] \cap {"overlap", "overwritten"} # {}

\* "Object is still being archived, try again later": archiving ends, whatever
\* runs beside it and whatever fails, unless a request stops in the middle.
ArchivingEnds ==
  \A o \in Objects :
    status[o] = "archiving" ~>
      status[o] # "archiving" \/ "stop" \in mishaps[o]

\* "Object will be available within 12-48h": a restore in progress ends with
\* an active object, unless the object is deleted first or has met with a
\* mishap other than a copy that went astray.
RestoreCompletes ==
  \A o \in Objects :
    status[o] = "restoring" ~>
      status[o] = "active" \/ deleted[o] \/ ~(mishaps[o] \subseteq {"astray"})
=============================================================================
