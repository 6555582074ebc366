------------------------- MODULE AgentArchiveProofs -------------------------
(***************************************************************************)
(* Theorems about AgentArchive, for every set of concurrent requests and   *)
(* objects, whatever may fail, stop or expire.                             *)
(***************************************************************************)
EXTENDS AgentArchive, TLAPS

-----------------------------------------------------------------------------
(* Typing. *)

\* A request has an object exactly while it runs.
TypeInv ==
  /\ TypeOK
  /\ \A r \in Requests : object[r] = Null <=> pc[r] = "idle"

LEMMA TypeInit == Init => TypeInv
  BY DEF Init, TypeInv, TypeOK, Statuses, Classes, Labels

LEMMA BefallsTyped ==
  ASSUME TypeInv, NEW o \in Objects, NEW what \in SUBSET Mishaps,
         Befalls(o, what)
  PROVE  mishaps' \in [Objects -> SUBSET Mishaps]
  BY DEF TypeInv, TypeOK, Befalls

LEMMA TypeStep == TypeInv /\ [Next]_vars => TypeInv'
<1> SUFFICES ASSUME TypeInv, [Next]_vars PROVE TypeInv'
  OBVIOUS
<1> USE ArchiveAssumption DEF Statuses, Classes
<1> DEFINE Tables == /\ status \in [Objects -> Statuses]
                     /\ deleted \in [Objects -> BOOLEAN]
                     /\ class \in [Objects -> Classes]
                     /\ mishaps \in [Objects -> SUBSET Mishaps]
<1>0. Tables
  BY DEF TypeInv, TypeOK
<1>a. ASSUME NEW r \in Requests, NEW from, Reply(r, from), Tables' PROVE TypeInv'
  BY <1>a DEF TypeInv, TypeOK, Reply, Labels
<1>b. ASSUME NEW r \in Requests, NEW from \in Labels \ {"idle"},
             NEW to \in Labels \ {"idle"}, Goto(r, from, to), Tables'
      PROVE  TypeInv'
  BY <1>b DEF TypeInv, TypeOK, Goto, Labels
<1>c. ASSUME NEW r \in Requests, object[r] \in Objects
      PROVE  \A s \in Statuses : SetStatus(r, s) => Tables'
  BY <1>0, <1>c DEF SetStatus
<1>d. ASSUME NEW r \in Requests, pc[r] # "idle" PROVE object[r] \in Objects
  BY <1>d DEF TypeInv, TypeOK
<1>1. ASSUME NEW r \in Requests, NEW o \in Objects, NEW ss, NEW to \in Labels,
             to # "idle", Begin(r, o, ss, to)
      PROVE  TypeInv'
  <2>1. PICK what \in SUBSET Mishaps : Befalls(o, what)
    BY <1>1 DEF Begin, Mishaps
  <2>2. Tables'
    BY <1>0, <1>1, <2>1, BefallsTyped DEF Begin
  <2>3. QED
    BY <1>1, <2>2 DEF Begin, TypeInv, TypeOK
<1>2. ASSUME NEW r \in Requests,
             \/ MarkArchiving(r) \/ MarkArchived(r) \/ MarkRestoring(r)
      PROVE  TypeInv'
  BY <1>2, <1>b, <1>c, <1>d
  DEF MarkArchiving, MarkArchived, MarkRestoring, Goto, Labels
<1>3. ASSUME NEW r \in Requests, UndoArchive(r) \/ MarkActive(r) PROVE TypeInv'
  BY <1>3, <1>a, <1>c, <1>d
  DEF UndoArchive, MarkActive, Reply, AfterFailure
<1>4. ASSUME NEW r \in Requests, CopyToGlacier(r) PROVE TypeInv'
  <2>1. PICK to \in {"markArchived", "undo"} : Goto(r, "copy", to)
    BY <1>4 DEF CopyToGlacier
  <2>2. object[r] \in Objects
    BY <1>d, <2>1 DEF Goto
  <2>3. class' \in [Objects -> Classes]
    BY <1>0, <1>4, <2>2 DEF CopyToGlacier, Freeze
  <2>4. mishaps' \in [Objects -> SUBSET Mishaps]
    BY <1>0, <1>4, <2>2, BefallsTyped DEF CopyToGlacier, Mishaps
  <2>5. QED
    BY <1>0, <1>4, <1>b, <2>1, <2>3, <2>4 DEF CopyToGlacier, Labels
<1>5. ASSUME NEW r \in Requests, AskRestore(r) PROVE TypeInv'
  <2>1. object[r] \in Objects /\ Goto(r, "ask", "audit")
    BY <1>5, <1>d DEF AskRestore, Goto
  <2>2. class' \in [Objects -> Classes]
    BY <1>0, <1>5, <2>1 DEF AskRestore, Asked
  <2>3. mishaps' \in [Objects -> SUBSET Mishaps]
    BY <1>0, <1>5, <2>1, BefallsTyped DEF AskRestore, Mishaps
  <2>4. QED
    BY <1>0, <1>5, <1>b, <2>1, <2>2, <2>3 DEF AskRestore, Labels
<1>6. ASSUME NEW r \in Requests, pc[r] = "poll", PollRestore(r) PROVE TypeInv'
  BY <1>0, <1>6, <1>a, <1>b DEF PollRestore, Labels
<1>7. ASSUME NEW r \in Requests, AuditArchive(r) PROVE TypeInv'
  BY <1>0, <1>7, <1>a DEF AuditArchive
<1>8. ASSUME NEW r \in Requests, Stop(r) PROVE TypeInv'
  <2>1. mishaps' \in [Objects -> SUBSET Mishaps]
    BY <1>8, <1>d, BefallsTyped DEF Stop, Mishaps
  <2>2. QED
    BY <1>0, <1>8, <1>a, <2>1 DEF Stop
<1>9. ASSUME NEW o \in Objects, DeleteObject(o) \/ FinishRestore(o)
      PROVE  TypeInv'
  BY <1>9 DEF DeleteObject, FinishRestore, locals, TypeInv, TypeOK
<1>10. ASSUME NEW o \in Objects, ExpireCopy(o) PROVE TypeInv'
  <2>1. mishaps' \in [Objects -> SUBSET Mishaps]
    BY <1>10, BefallsTyped DEF ExpireCopy, Mishaps
  <2>2. QED
    BY <1>10, <2>1 DEF ExpireCopy, locals, TypeInv, TypeOK
<1>11. ASSUME NEW o \in Objects, Overwrite(o) PROVE TypeInv'
  <2>1. mishaps' \in [Objects -> SUBSET Mishaps]
    BY <1>11, BefallsTyped DEF Overwrite, Mishaps
  <2>2. QED
    BY <1>11, <2>1 DEF Overwrite, locals, TypeInv, TypeOK
<1>12. ASSUME UNCHANGED vars PROVE TypeInv'
  BY <1>12 DEF vars, TypeInv, TypeOK
<1>13. QED
  BY <1>1, <1>2, <1>3, <1>4, <1>5, <1>6, <1>7, <1>8, <1>9, <1>10, <1>11, <1>12
  DEF Next, Statement, StartArchive, StartRestore, StartStatus, Labels

\* Every variable keeps its type: archive_status stays within the CHECK.
THEOREM TypeSafe == Spec => []TypeOK
<1>1. TypeInv => TypeOK
  BY DEF TypeInv
<1>2. QED
  BY TypeInit, TypeStep, <1>1, PTL DEF Spec

-----------------------------------------------------------------------------
(* The status and the data. *)

\* The data of an object with this history can be read, or is cold, unless one
\* of the mishaps that can undo it is among them.
CanRead(c, m) == m \cap {"astray", "lapse"} = {} => Readable(c)
IsCold(c, m) == "overwritten" \notin m => c = "cold"

\* What a request at each label may rely on, if it is alone with the object.
Fits(label, s, c, m) ==
  /\ label = "markArchiving" => s = "active" /\ CanRead(c, m)
  /\ label \in {"copy", "undo"} => s = "archiving" /\ CanRead(c, m)
  /\ label = "markArchived" => s = "archiving" /\ IsCold(c, m)
  /\ label = "markRestoring" => s = "archived" /\ IsCold(c, m)
  /\ label = "audit" => s = "restoring" \/ (s = "archived" /\ IsCold(c, m))
  /\ label \in {"ask", "poll"} => s = "restoring"
  /\ label = "markActive" => s = "restoring" /\ CanRead(c, m)

Settled(s, c, m) ==
  (s = "active" => CanRead(c, m)) /\ (s = "archived" => IsCold(c, m))

\* An object that two requests were never at work on has one request at most,
\* which finds what it relies on; without one, its status is truthful.
Sound(o) ==
  "overlap" \notin mishaps[o] =>
    /\ \A q, r \in Requests : object[q] = o /\ object[r] = o => q = r
    /\ \A r \in Requests :
         object[r] = o => Fits(pc[r], status[o], class[o], mishaps[o])
    /\ Untouched(o) => Settled(status[o], class[o], mishaps[o])

StatusInv == \A o \in Objects : Sound(o)

LEMMA StatusInit == Init => StatusInv
  BY ArchiveAssumption
  DEF Init, StatusInv, Sound, Settled, CanRead, Readable, Untouched

\* More mishaps leave less to rely on.
LEMMA FitsFewer ==
  ASSUME NEW label, NEW s, NEW c, NEW m, NEW n, m \subseteq n
  PROVE  /\ Fits(label, s, c, m) => Fits(label, s, c, n)
         /\ Settled(s, c, m) => Settled(s, c, n)
<1>1. (CanRead(c, m) => CanRead(c, n)) /\ (IsCold(c, m) => IsCold(c, n))
  BY DEF CanRead, IsCold
<1>2. QED
  BY <1>1 DEF Fits, Settled

\* A step that leaves an object and its requests alone, or only says more
\* about what has befallen it, leaves it sound.
LEMMA OtherObjects ==
  ASSUME TypeInv, NEW o \in Objects, Sound(o),
         mishaps[o] \subseteq mishaps'[o],
         status'[o] = status[o], class'[o] = class[o],
         \A r \in Requests :
           /\ object'[r] = o <=> object[r] = o
           /\ object[r] = o => pc'[r] = pc[r]
  PROVE  Sound(o)'
  BY FitsFewer DEF Sound, Untouched

\* A step of a request that is alone with its object, and stays.
LEMMA SoloGoes ==
  ASSUME TypeInv, TypeInv', StatusInv, NEW r \in Requests, NEW from, NEW to,
         Goto(r, from, to), object[r] \in Objects,
         mishaps[object[r]] \subseteq mishaps'[object[r]],
         LET o == object[r]
         IN  Fits(from, status[o], class[o], mishaps[o]) =>
               Fits(to, status'[o], class'[o], mishaps'[o]),
         \A o \in Objects \ {object[r]} :
           /\ mishaps'[o] = mishaps[o] /\ status'[o] = status[o]
           /\ class'[o] = class[o]
  PROVE  StatusInv'
<1>1. ASSUME NEW o \in Objects, o # object[r] PROVE Sound(o)'
  BY <1>1, OtherObjects DEF StatusInv, Goto, TypeInv, TypeOK
<1>2. Sound(object[r])'
  BY DEF StatusInv, Sound, Untouched, Goto, TypeInv, TypeOK
<1>3. QED
  BY <1>1, <1>2 DEF StatusInv, Goto

\* ... and leaves.
LEMMA SoloLeaves ==
  ASSUME TypeInv, TypeInv', StatusInv, NEW r \in Requests, NEW from,
         Reply(r, from), object[r] \in Objects,
         mishaps[object[r]] \subseteq mishaps'[object[r]],
         LET o == object[r]
         IN  Fits(from, status[o], class[o], mishaps[o]) =>
               Settled(status'[o], class'[o], mishaps'[o]),
         \A o \in Objects \ {object[r]} :
           /\ mishaps'[o] = mishaps[o] /\ status'[o] = status[o]
           /\ class'[o] = class[o]
  PROVE  StatusInv'
<1> USE ArchiveAssumption
<1>1. ASSUME NEW o \in Objects, o # object[r] PROVE Sound(o)'
  BY <1>1, OtherObjects DEF StatusInv, Reply, TypeInv, TypeOK
<1>2. ASSUME NEW o \in Objects, o = object[r] PROVE Sound(o)'
  BY <1>2 DEF StatusInv, Sound, Untouched, Reply, TypeInv, TypeOK
<1>3. QED
  BY <1>1, <1>2 DEF StatusInv

LEMMA StatusStep ==
  TypeInv /\ TypeInv' /\ StatusInv /\ [Next]_vars => StatusInv'
<1> SUFFICES ASSUME TypeInv, TypeInv', StatusInv, [Next]_vars PROVE StatusInv'
  OBVIOUS
<1> USE ArchiveAssumption
<1>a. ASSUME NEW r \in Requests, pc[r] # "idle"
      PROVE  /\ object[r] \in Objects
             /\ \A s : SetStatus(r, s) =>
                  /\ status'[object[r]] = s /\ UNCHANGED <<class, mishaps>>
                  /\ \A o \in Objects \ {object[r]} : status'[o] = status[o]
  BY <1>a DEF TypeInv, TypeOK, SetStatus
<1>b. ASSUME NEW o \in Objects, NEW what, Befalls(o, what)
      PROVE  /\ mishaps'[o] = mishaps[o] \cup what
             /\ \A p \in Objects \ {o} : mishaps'[p] = mishaps[p]
  BY <1>b DEF Befalls, TypeInv, TypeOK
<1>1. ASSUME NEW r \in Requests, NEW o \in Objects, NEW ss, NEW to \in Labels,
             Begin(r, o, ss, to), to # "idle",
             \A m : status[o] \in ss /\ Settled(status[o], class[o], m) =>
                     Fits(to, status[o], class[o], m)
      PROVE  StatusInv'
  <2>0. /\ object[r] = Null /\ object'[r] = o /\ pc'[r] = to
        /\ \A q \in Requests \ {r} : object'[q] = object[q] /\ pc'[q] = pc[q]
        /\ UNCHANGED <<status, class>> /\ status[o] \in ss
    BY <1>1 DEF Begin, TypeInv, TypeOK
  <2>1. ASSUME NEW p \in Objects, p # o PROVE Sound(p)'
    <3>1. mishaps'[p] = mishaps[p]
      BY <1>1, <1>b, <2>1 DEF Begin
    <3>2. QED
      BY <2>0, <2>1, <3>1, OtherObjects DEF StatusInv
  <2>2. CASE Untouched(o)
    <3>1. \A q \in Requests \ {r} : object'[q] # o
      BY <2>0, <2>2 DEF Untouched
    <3>2. "overlap" \notin mishaps'[o] =>
            Settled(status[o], class[o], mishaps'[o])
      <4>1. mishaps[o] \subseteq mishaps'[o]
        BY <1>1, <1>b DEF Begin
      <4>2. "overlap" \notin mishaps[o] =>
              Settled(status[o], class[o], mishaps[o])
        BY <2>2 DEF StatusInv, Sound
      <4>3. QED
        BY <4>1, <4>2, FitsFewer
    <3>3. "overlap" \notin mishaps'[o] =>
            Fits(to, status[o], class[o], mishaps'[o])
      BY <1>1, <2>0, <3>2
    <3>4. Sound(o)'
      BY <2>0, <3>1, <3>3 DEF Sound, Untouched
    <3>5. QED
      BY <2>1, <3>4 DEF StatusInv
  <2>3. CASE ~Untouched(o)
    <3>1. "overlap" \in mishaps'[o]
      BY <1>1, <1>b, <2>3 DEF Begin, Untouched
    <3>2. QED
      BY <2>1, <3>1 DEF StatusInv, Sound
  <2>4. QED
    BY <2>2, <2>3
<1>2. ASSUME NEW r \in Requests, NEW o \in Objects,
             StartArchive(r, o) \/ StartRestore(r, o) \/ StartStatus(r, o)
      PROVE  StatusInv'
  BY <1>1, <1>2
  DEF StartArchive, StartRestore, StartStatus, Fits, Settled, Labels,
      Archivable, Restorable
<1>3. ASSUME NEW r \in Requests,
             \/ MarkArchiving(r) \/ MarkArchived(r) \/ MarkRestoring(r)
      PROVE  StatusInv'
  BY <1>3, <1>a, SoloGoes
  DEF MarkArchiving, MarkArchived, MarkRestoring, Goto, Fits
<1>4. ASSUME NEW r \in Requests, UndoArchive(r) \/ MarkActive(r) PROVE StatusInv'
  BY <1>4, <1>a, SoloLeaves
  DEF UndoArchive, MarkActive, Reply, AfterFailure, Fits, Settled
<1>5. ASSUME NEW r \in Requests, CopyToGlacier(r) PROVE StatusInv'
  <2>1. object[r] \in Objects /\ UNCHANGED status
    BY <1>5, <1>a DEF CopyToGlacier, Goto
  <2>2. CASE Goto(r, "copy", "markArchived") /\ Freeze(object[r])
             /\ UNCHANGED mishaps
    BY <2>1, <2>2, SoloGoes DEF Freeze, Fits, IsCold, TypeInv, TypeOK
  <2>3. CASE Goto(r, "copy", "undo") /\ UNCHANGED <<class, mishaps>>
    BY <2>1, <2>3, SoloGoes DEF Fits
  <2>4. CASE Goto(r, "copy", "undo") /\ Freeze(object[r])
             /\ Befalls(object[r], {"astray"})
    <3>1. /\ "astray" \in mishaps'[object[r]]
          /\ mishaps[object[r]] \subseteq mishaps'[object[r]]
      BY <1>b, <2>1, <2>4
    <3>2. \A o \in Objects \ {object[r]} :
            mishaps'[o] = mishaps[o] /\ class'[o] = class[o]
      BY <1>b, <2>1, <2>4 DEF Freeze, TypeInv, TypeOK
    <3>3. QED
      BY <2>1, <2>4, <3>1, <3>2, SoloGoes DEF Fits, CanRead
  <2>5. QED
    BY <1>5, <2>2, <2>3, <2>4 DEF CopyToGlacier
<1>6. ASSUME NEW r \in Requests, AskRestore(r) PROVE StatusInv'
  <2>1. object[r] \in Objects /\ Goto(r, "ask", "audit") /\ UNCHANGED status
    BY <1>6, <1>a DEF AskRestore, Goto
  <2>2. /\ mishaps[object[r]] \subseteq mishaps'[object[r]]
        /\ \A o \in Objects \ {object[r]} :
             mishaps'[o] = mishaps[o] /\ class'[o] = class[o]
    BY <1>6, <1>b, <2>1 DEF AskRestore, TypeInv, TypeOK
  <2>3. QED
    BY <2>1, <2>2, SoloGoes DEF Fits
<1>7. ASSUME NEW r \in Requests, pc[r] = "poll", PollRestore(r)
      PROVE  StatusInv'
  <2>1. object[r] \in Objects /\ UNCHANGED <<status, class, mishaps>>
    BY <1>7, <1>a DEF PollRestore
  <2>2. CASE Ready(class[object[r]]) /\ Goto(r, "poll", "markActive")
    BY <2>1, <2>2, SoloGoes DEF Ready, Fits, CanRead, Readable
  <2>3. CASE Reply(r, "poll")
    BY <2>1, <2>3, SoloLeaves DEF Fits, Settled
  <2>4. QED
    BY <1>7, <2>2, <2>3 DEF PollRestore
<1>8. ASSUME NEW r \in Requests, AuditArchive(r) PROVE StatusInv'
  BY <1>8, <1>a, SoloLeaves DEF AuditArchive, Reply, Fits, Settled
<1>9. ASSUME NEW r \in Requests, Stop(r) PROVE StatusInv'
  <2>1. \A s, c, m : Fits(pc[r], s, c, m) => Settled(s, c, m)
    BY <1>9 DEF Fits, Settled, Stop, TypeInv, TypeOK, Labels
  <2>2. /\ mishaps[object[r]] \subseteq mishaps'[object[r]]
        /\ \A o \in Objects \ {object[r]} : mishaps'[o] = mishaps[o]
    BY <1>9, <1>a, <1>b DEF Stop
  <2>3. QED
    BY <1>9, <1>a, <2>1, <2>2, FitsFewer, SoloLeaves DEF Stop
<1>10. ASSUME NEW o \in Objects, DeleteObject(o) PROVE StatusInv'
  BY <1>10, OtherObjects DEF DeleteObject, locals, StatusInv
<1>11. ASSUME NEW o \in Objects, FinishRestore(o) PROVE StatusInv'
  <2>1. ASSUME NEW p \in Objects, p # o PROVE Sound(p)'
    BY <1>11, <2>1, OtherObjects DEF FinishRestore, locals, StatusInv, TypeInv, TypeOK
  <2>2. class[o] = "thawing" /\ class'[o] = "warm"
    BY <1>11 DEF FinishRestore, TypeInv, TypeOK
  <2>3. Sound(o)'
    BY <1>11, <2>2
    DEF FinishRestore, locals, StatusInv, Sound, Untouched, Fits, Settled,
        CanRead, IsCold, Readable
  <2>4. QED
    BY <2>1, <2>3 DEF StatusInv
\* A dropped copy is a reason for data that cannot be read, and leaves cold data.
<1>12. ASSUME NEW o \in Objects, ExpireCopy(o) PROVE StatusInv'
  <2>1. ASSUME NEW p \in Objects, p # o PROVE Sound(p)'
    BY <1>12, <1>b, <2>1, OtherObjects
    DEF ExpireCopy, locals, StatusInv, TypeInv, TypeOK
  <2>2. /\ mishaps'[o] = mishaps[o] \cup {"lapse"} /\ class'[o] = "cold"
        /\ UNCHANGED <<status, pc, object>>
    BY <1>12, <1>b DEF ExpireCopy, locals, TypeInv, TypeOK
  <2>3. \A label, s :
          /\ Fits(label, s, class[o], mishaps[o]) =>
               Fits(label, s, class'[o], mishaps'[o])
          /\ Settled(s, class'[o], mishaps'[o])
    BY <2>2 DEF Fits, Settled, CanRead, IsCold
  <2>4. Sound(o)'
    BY <2>2, <2>3 DEF StatusInv, Sound, Untouched
  <2>5. QED
    BY <2>1, <2>4 DEF StatusInv
\* New data can be read; it is a reason for an archived object that is not cold.
<1>13. ASSUME NEW o \in Objects, Overwrite(o) PROVE StatusInv'
  <2>1. ASSUME NEW p \in Objects, p # o PROVE Sound(p)'
    BY <1>13, <1>b, <2>1, OtherObjects
    DEF Overwrite, locals, StatusInv, TypeInv, TypeOK
  <2>2. /\ mishaps[o] \subseteq mishaps'[o] /\ class'[o] = "standard"
        /\ status[o] = "active" \/ "overwritten" \in mishaps'[o]
        /\ UNCHANGED <<status, pc, object>>
    BY <1>13, <1>b DEF Overwrite, locals, TypeInv, TypeOK
  <2>3. \A label :
          /\ Fits(label, status[o], class[o], mishaps[o]) =>
               Fits(label, status[o], class'[o], mishaps'[o])
          /\ Settled(status[o], class'[o], mishaps'[o])
    BY <2>2 DEF Fits, Settled, CanRead, IsCold, Readable
  <2>4. Sound(o)'
    BY <2>2, <2>3 DEF StatusInv, Sound, Untouched
  <2>5. QED
    BY <2>1, <2>4 DEF StatusInv
<1>14. ASSUME UNCHANGED vars PROVE StatusInv'
  BY <1>14 DEF vars, StatusInv, Sound, Untouched
<1>15. QED
  BY <1>2, <1>3, <1>4, <1>5, <1>6, <1>7, <1>8, <1>9, <1>10, <1>11, <1>12, <1>13,
     <1>14
  DEF Next, Statement

\* Whatever fails or stops on the way, an object that no request works on has
\* the storage class its status promises, but for the mishaps StatusTruthful
\* names: a copy that was made although its call failed or a copy S3 dropped
\* for an active object, a store over its data for an archived one, and two
\* requests at work at once for both.
THEOREM StatusTruthfulSafe == Spec => []StatusTruthful
<1>1. StatusInv => StatusTruthful
  BY DEF StatusInv, Sound, Settled, CanRead, IsCold, StatusTruthful
<1>2. QED
  BY TypeInit, TypeStep, StatusInit, StatusStep, <1>1, PTL DEF Spec

-----------------------------------------------------------------------------
(* What liveness rests on: somebody is left to end what was begun. *)

\* Labels of a request that will take its object out of archiving.
ArchivingLabels == {"copy", "undo", "markArchived"}

ArchivingAttended(o) ==
  status[o] = "archiving" /\ "stop" \notin mishaps[o] =>
    \E r \in Requests : object[r] = o /\ pc[r] \in ArchivingLabels

\* A restore is still to be asked for, under way in S3, or done.
RestoreAttended(o) ==
  status[o] = "restoring" /\ mishaps[o] \subseteq {"astray"} =>
    \/ class[o] \in {"thawing", "warm"}
    \/ /\ class[o] = "cold"
       /\ \E r \in Requests : object[r] = o /\ pc[r] = "ask"

\* Both, of one object.
Attended(o) == ArchivingAttended(o) /\ RestoreAttended(o)

\* It is inductive, next to StatusInv: what a request finds at "copy" and at
\* "markRestoring" decides what it leaves.
AttendedInv == \A o \in Objects : Attended(o)

\* Every object is active at first.
LEMMA AttendedInit == Init => AttendedInv
  BY ArchiveAssumption
  DEF Init, AttendedInv, Attended, ArchivingAttended, RestoreAttended

\* The history never forgets.
LEMMA MishapsStay ==
  ASSUME TypeInv, [Next]_vars, NEW o \in Objects
  PROVE  mishaps[o] \subseteq mishaps'[o]
<1>1. ASSUME NEW p, NEW what, Befalls(p, what) PROVE mishaps[o] \subseteq mishaps'[o]
  BY <1>1 DEF Befalls, TypeInv, TypeOK
<1>2. CASE \/ \E r \in Requests, p \in Objects :
                StartArchive(r, p) \/ StartRestore(r, p) \/ StartStatus(r, p)
           \/ \E r \in Requests : Stop(r)
           \/ \E p \in Objects : ExpireCopy(p) \/ Overwrite(p)
  BY <1>1, <1>2 DEF StartArchive, StartRestore, StartStatus, Begin, Stop,
    ExpireCopy, Overwrite
<1>3. CASE \E r \in Requests : Statement(r)
  <2>1. CASE \E r \in Requests : AskRestore(r) \/ CopyToGlacier(r)
    BY <1>1, <2>1 DEF AskRestore, CopyToGlacier
  <2>2. CASE ~\E r \in Requests : AskRestore(r) \/ CopyToGlacier(r)
    BY <1>3, <2>2 DEF Statement, MarkArchiving, UndoArchive,
      MarkArchived, AuditArchive, MarkRestoring, PollRestore, MarkActive, SetStatus
  <2>3. QED
    BY <2>1, <2>2
<1>4. CASE \/ \E p \in Objects : DeleteObject(p) \/ FinishRestore(p)
           \/ UNCHANGED vars
  BY <1>4 DEF DeleteObject, FinishRestore, vars
<1>5. QED
  BY <1>2, <1>3, <1>4 DEF Next

\* A step of somebody else, or one of S3, leaves an object attended.
LEMMA AttendedKept ==
  ASSUME NEW o \in Objects, AttendedInv, status'[o] = status[o],
         mishaps[o] \subseteq mishaps'[o],
         class'[o] = class[o] \/ (class[o] = "thawing" /\ class'[o] = "warm"),
         \A q \in Requests :
           object[q] = o /\ pc[q] \in ArchivingLabels \cup {"ask"} =>
             object'[q] = o /\ pc'[q] = pc[q]
  PROVE  Attended(o)'
<1>1. ArchivingAttended(o)'
  BY DEF AttendedInv, Attended, ArchivingAttended
<1>2. RestoreAttended(o)'
  <2>1. mishaps'[o] \subseteq {"astray"} => mishaps[o] \subseteq {"astray"}
    OBVIOUS
  <2>2. RestoreAttended(o)
    BY DEF AttendedInv, Attended
  <2>3. QED
    BY <2>1, <2>2 DEF RestoreAttended
<1>3. QED
  BY <1>1, <1>2 DEF Attended

\* Every step keeps it.
LEMMA AttendedStep ==
  TypeInv /\ StatusInv /\ AttendedInv /\ [Next]_vars => AttendedInv'
<1> SUFFICES ASSUME TypeInv, StatusInv, AttendedInv, [Next]_vars,
                    NEW o \in Objects
             PROVE  Attended(o)'
  BY DEF AttendedInv
<1> USE DEF Attended, ArchivingAttended, RestoreAttended, ArchivingLabels
<1>a. mishaps[o] \subseteq mishaps'[o]
  BY MishapsStay
<1>1. ASSUME NEW r \in Requests, NEW p \in Objects, NEW ss, NEW to,
             Begin(r, p, ss, to)
      PROVE  Attended(o)'
  BY <1>1, <1>a, AttendedKept DEF Begin, TypeInv, TypeOK
\* A request goes on with another object, or does not matter to this one.
<1>2. ASSUME NEW r \in Requests, NEW from, NEW to,
             Goto(r, from, to) \/ Reply(r, from),
             status'[o] = status[o], class'[o] = class[o],
             object[r] # o \/ from \notin ArchivingLabels \cup {"ask"}
      PROVE  Attended(o)'
  BY <1>2, <1>a, AttendedKept DEF Goto, Reply, TypeInv, TypeOK
<1>3. ASSUME NEW r \in Requests, NEW s, SetStatus(r, s)
      PROVE  /\ class'[o] = class[o] /\ mishaps'[o] = mishaps[o]
             /\ object[r] = o => status'[o] = s
             /\ object[r] # o => status'[o] = status[o]
  BY <1>3 DEF SetStatus, TypeInv, TypeOK
<1>4. ASSUME NEW r \in Requests, MarkArchiving(r) PROVE Attended(o)'
  <2>1. pc'[r] = "copy" /\ object'[r] = object[r]
    BY <1>4 DEF MarkArchiving, Goto, TypeInv, TypeOK
  <2>2. CASE object[r] = o
    BY <1>3, <1>4, <2>1, <2>2 DEF MarkArchiving
  <2>3. CASE object[r] # o
    BY <1>2, <1>3, <1>4, <2>3 DEF MarkArchiving
  <2>4. QED
    BY <2>2, <2>3
<1>5. ASSUME NEW r \in Requests, CopyToGlacier(r) PROVE Attended(o)'
  <2>1. /\ pc[r] = "copy" /\ pc'[r] \in ArchivingLabels
        /\ object'[r] = object[r] /\ status'[o] = status[o]
        /\ object[r] # o => class'[o] = class[o]
        /\ \E to : Goto(r, "copy", to)
    BY <1>5 DEF CopyToGlacier, Freeze, Goto, TypeInv, TypeOK
  <2>2. CASE object[r] = o
    <3>1. mishaps[o] \subseteq {"astray"} => status[o] = "archiving"
      BY <2>1, <2>2 DEF StatusInv, Sound, Fits
    <3>2. QED
      BY <1>a, <2>1, <2>2, <3>1
  <2>3. CASE object[r] # o
    BY <1>2, <2>1, <2>3
  <2>4. QED
    BY <2>2, <2>3
<1>6. ASSUME NEW r \in Requests,
             UndoArchive(r) \/ MarkArchived(r) \/ MarkActive(r)
      PROVE  Attended(o)'
  <2>1. PICK s \in {"active", "archived"} : SetStatus(r, s)
    BY <1>6 DEF UndoArchive, MarkArchived, MarkActive, AfterFailure
  <2>2. CASE object[r] = o
    BY <1>3, <2>1, <2>2
  <2>3. CASE object[r] # o
    BY <1>2, <1>3, <1>6, <2>1, <2>3 DEF UndoArchive, MarkArchived, MarkActive
  <2>4. QED
    BY <2>2, <2>3
<1>7. ASSUME NEW r \in Requests,
             AuditArchive(r) \/ (pc[r] = "poll" /\ PollRestore(r))
      PROVE  Attended(o)'
  BY <1>2, <1>7 DEF AuditArchive, PollRestore
<1>8. ASSUME NEW r \in Requests, MarkRestoring(r) PROVE Attended(o)'
  <2>1. /\ pc[r] = "markRestoring" /\ pc'[r] = "ask" /\ object'[r] = object[r]
    BY <1>8 DEF MarkRestoring, Goto, TypeInv, TypeOK
  <2>2. CASE object[r] = o
    <3>1. mishaps[o] \subseteq {"astray"} => class[o] = "cold"
      BY <2>1, <2>2 DEF StatusInv, Sound, Fits, IsCold
    <3>2. QED
      BY <1>3, <1>8, <2>1, <2>2, <3>1 DEF MarkRestoring
  <2>3. CASE object[r] # o
    BY <1>2, <1>3, <1>8, <2>3 DEF MarkRestoring
  <2>4. QED
    BY <2>2, <2>3
<1>9. ASSUME NEW r \in Requests, AskRestore(r) PROVE Attended(o)'
  <2>1. /\ pc[r] = "ask" /\ status'[o] = status[o] /\ Goto(r, "ask", "audit")
        /\ object[r] # o => class'[o] = class[o]
    BY <1>9 DEF AskRestore, TypeInv, TypeOK, Goto
  <2>2. CASE object[r] = o
    <3>1. status[o] = "archiving" /\ "stop" \notin mishaps'[o] =>
            \E q \in Requests : object'[q] = o /\ pc'[q] \in ArchivingLabels
      BY <1>a, <2>1 DEF Goto, AttendedInv, TypeInv, TypeOK
    <3>2. mishaps'[o] \subseteq {"astray"} => class'[o] = Asked(class[o])
      BY <1>9, <2>2 DEF AskRestore, Befalls, TypeInv, TypeOK
    <3>3. status[o] = "restoring" /\ mishaps'[o] \subseteq {"astray"} =>
            class'[o] \in {"thawing", "warm"}
      BY <1>a, <3>2 DEF Asked, AttendedInv
    <3>4. QED
      BY <2>1, <3>1, <3>3
  <2>3. CASE object[r] # o
    BY <1>2, <2>1, <2>3
  <2>4. QED
    BY <2>2, <2>3
<1>10. ASSUME NEW r \in Requests, Stop(r) PROVE Attended(o)'
  <2>1. /\ status'[o] = status[o] /\ class'[o] = class[o] /\ Reply(r, pc[r])
        /\ object[r] = o => "stop" \in mishaps'[o]
    BY <1>10 DEF Stop, Befalls, TypeInv, TypeOK
  <2>2. CASE object[r] = o
    BY <2>1, <2>2
  <2>3. CASE object[r] # o
    BY <1>2, <2>1, <2>3
  <2>4. QED
    BY <2>2, <2>3
<1>11. ASSUME NEW p \in Objects, DeleteObject(p) \/ FinishRestore(p)
       PROVE  Attended(o)'
  BY <1>11, <1>a, AttendedKept
  DEF DeleteObject, FinishRestore, locals, TypeInv, TypeOK
<1>12. ASSUME NEW p \in Objects, ExpireCopy(p) PROVE Attended(o)'
  <2>1. CASE p = o
    <3>1. "lapse" \in mishaps'[o] /\ UNCHANGED <<status, pc, object>>
      BY <1>12, <2>1 DEF ExpireCopy, Befalls, locals, TypeInv, TypeOK
    <3>2. QED
      BY <1>a, <3>1 DEF Attended, AttendedInv
  <2>2. CASE p # o
    BY <1>12, <1>a, <2>2, AttendedKept DEF ExpireCopy, locals, TypeInv, TypeOK
  <2>3. QED
    BY <2>1, <2>2
<1>13. ASSUME NEW p \in Objects, Overwrite(p) PROVE Attended(o)'
  <2>1. CASE p = o
    <3>1. /\ UNCHANGED <<status, pc, object>>
          /\ status[o] = "active" \/ "overwritten" \in mishaps'[o]
      BY <1>13, <2>1 DEF Overwrite, Befalls, locals, TypeInv, TypeOK
    <3>2. QED
      BY <1>a, <3>1 DEF Attended, AttendedInv
  <2>2. CASE p # o
    BY <1>13, <1>a, <2>2, AttendedKept DEF Overwrite, locals, TypeInv, TypeOK
  <2>3. QED
    BY <2>1, <2>2
<1>14. ASSUME UNCHANGED vars PROVE Attended(o)'
  BY <1>14, <1>a, AttendedKept DEF vars
<1>15. QED
  BY <1>1, <1>4, <1>5, <1>6, <1>7, <1>8, <1>9, <1>10, <1>11, <1>12, <1>13, <1>14
  DEF Next, Statement, StartArchive, StartRestore, StartStatus

\* An object whose status is "archiving" is being worked on by a request that
\* will take it out of that status again, whatever runs beside it and whatever
\* S3 refuses, unless a request stopped while at work on it: the answer "try
\* again later" is not given without reason.
THEOREM ArchivingIsAttended == Spec => []\A o \in Objects : ArchivingAttended(o)
<1>1. AttendedInv => \A o \in Objects : ArchivingAttended(o)
  BY DEF AttendedInv, Attended
<1>2. QED
  BY TypeInit, TypeStep, StatusInit, StatusStep, AttendedInit, AttendedStep,
     <1>1, PTL DEF Spec

\* An object whose status is "restoring" and that no mishap has befallen, other
\* than a copy that went astray, is one whose restore S3 has been asked for or has carried out, or
\* whose request is about to ask: whoever waits does not wait in vain.
THEOREM RestoringIsAttended == Spec => []\A o \in Objects : RestoreAttended(o)
<1>1. AttendedInv => \A o \in Objects : RestoreAttended(o)
  BY DEF AttendedInv, Attended
<1>2. QED
  BY TypeInit, TypeStep, StatusInit, StatusStep, AttendedInit, AttendedStep,
     <1>1, PTL DEF Spec
=============================================================================
