----------------------------- MODULE AgentShare -----------------------------
(***************************************************************************)
(* Sharing an object with another vault (api/routes/agent/share.ts, the    *)
(* table vault_shares of migrations/020).  Sharing is five statements with *)
(* decisions between them; revoking a share is one, and reading one        *)
(* changes nothing.                                                        *)
(***************************************************************************)
EXTENDS Naturals, FiniteSets

CONSTANTS
  Requests, Objects,
  Vaults, Sharer,  \* every object belongs to the vault Sharer
  KeyOf,           \* [Vaults -> a key]: x25519_public_key, which need not differ
  ShareIds,        \* bound on the shares
  Changes,         \* what else may happen, of {"archive", "delete", "cascade",
                   \* "disable", "expire"}
  Null

VARIABLES
  state,    \* of an object: "live", "archived", "deleted" (softly) or "gone"
  active,   \* agent_vaults.is_active
  share,    \* vault_shares: a row, or Null, for each id
  pc, call,
  raced     \* history: object and target of two sharings that both passed the
            \* check for a duplicate before either ended

vars == <<state, active, share, pc, call, raced>>

\* expires_at: never, still ahead, or past.
Row == [object: Objects, to: Vaults, live: BOOLEAN,
        expiry: {"never", "ahead", "past"}]
Call == [object: Objects, key: {KeyOf[v] : v \in Vaults},
         expiry: {"never", "ahead"}, to: Vaults \cup {Null}]
Labels == {"idle", "findTarget", "checkDuplicate", "readKey", "insert"}

ASSUME ShareAssumption ==
  /\ IsFiniteSet(Requests) /\ IsFiniteSet(ShareIds)
  /\ Sharer \in Vaults /\ Objects # {}
  /\ Changes \subseteq {"archive", "delete", "cascade", "disable", "expire"}
  /\ Null \notin Vaults \cup Row \cup Call

Init ==
  /\ state = [o \in Objects |-> "live"] /\ raced = {}
  /\ active = [v \in Vaults |-> TRUE]
  /\ share = [s \in ShareIds |-> Null]
  /\ pc = [r \in Requests |-> "idle"] /\ call = [r \in Requests |-> Null]

tables == <<state, active, share>>

Goto(r, from, to) == pc[r] = from /\ pc' = [pc EXCEPT ![r] = to]
Reply(r, from) == Goto(r, from, "idle") /\ call' = [call EXCEPT ![r] = Null]

\* The sharings of o with v that are past the check for a duplicate.
Past(o, v) == {r \in Requests : /\ pc[r] \in {"readKey", "insert"}
                                /\ call[r].object = o /\ call[r].to = v}

\* is_active = TRUE AND (expires_at IS NULL OR expires_at > NOW())
InForce(s) == share[s] # Null /\ share[s].live /\ share[s].expiry # "past"

-----------------------------------------------------------------------------
(* POST /objects/share *)

\* Bound: an object is shared only if an id is left.
ShareIdLeft ==
  Cardinality({s \in ShareIds : share[s] = Null}) >
  Cardinality({r \in Requests : pc[r] # "idle"})

\* The SELECT of the source object; a missing one is a 404.
Shareable(o) == state[o] = "live"

FindSource(r, o, k, expiry) ==
  /\ ShareIdLeft /\ active[Sharer] /\ Shareable(o)
  /\ Goto(r, "idle", "findTarget")
  /\ call' = [call EXCEPT ![r] = [object |-> o, key |-> k, expiry |-> expiry,
                                  to |-> Null]]
  /\ UNCHANGED <<tables, raced>>

\* The first vault with the key, in whatever order the rows come: a disabled
\* one is a 403 and the sharer itself a 400.
Target(v) == active[v] /\ v # Sharer

FindTarget(r) ==
  /\ \E v \in {w \in Vaults : KeyOf[w] = call[r].key} :
       IF Target(v)
       THEN /\ Goto(r, "findTarget", "checkDuplicate")
            /\ call' = [call EXCEPT ![r].to = v]
       ELSE Reply(r, "findTarget")
  /\ UNCHANGED <<tables, raced>>

\* Mutant of Duplicate: no check.
DuplicateNever(o, v) == FALSE

Duplicate(o, v) ==
  \E s \in ShareIds : InForce(s) /\ share[s].object = o /\ share[s].to = v

CheckDuplicate(r) ==
  LET o == call[r].object  v == call[r].to IN
  /\ IF Duplicate(o, v)
     THEN Reply(r, "checkDuplicate") /\ UNCHANGED raced
     ELSE /\ Goto(r, "checkDuplicate", "readKey") /\ UNCHANGED call
          /\ raced' = IF Past(o, v) = {} THEN raced ELSE raced \cup {<<o, v>>}
  /\ UNCHANGED tables

\* The SELECT of the namespace of the object, and the INSERT, whose foreign
\* keys fail when the rows have gone in between.
ReadNamespaceKey(r) ==
  /\ IF state[call[r].object] = "gone"
     THEN Reply(r, "readKey")
     ELSE Goto(r, "readKey", "insert") /\ UNCHANGED call
  /\ UNCHANGED <<tables, raced>>

InsertShare(r) ==
  /\ Reply(r, "insert")
  /\ IF state[call[r].object] = "gone"
     THEN UNCHANGED share
     ELSE \E s \in ShareIds :
            /\ share[s] = Null
            /\ share' = [share EXCEPT ![s] =
                           [object |-> call[r].object, to |-> call[r].to,
                            live |-> TRUE, expiry |-> call[r].expiry]]
  /\ UNCHANGED <<state, active, raced>>

(* DELETE /objects/share/:shareId, by the sharer *)

\* Mutant of Revoked: the revocation is kept with the expiry.
RevokedExpiry(row) == [row EXCEPT !.expiry = "revoked"]

Revoked(row) == [row EXCEPT !.live = FALSE]

RevokeShare(s) ==
  /\ active[Sharer] /\ share[s] # Null /\ share[s].live
  /\ share' = [share EXCEPT ![s] = Revoked(@)]
  /\ UNCHANGED <<state, active, pc, call, raced>>

-----------------------------------------------------------------------------
(* What AgentObjects, AgentArchive and AgentVaults do to the same rows, an   *)
(* owner disabling a vault, and time.                                       *)
Move(o, from, to) ==
  /\ state[o] \in from /\ state' = [state EXCEPT ![o] = to]
  /\ UNCHANGED <<active, pc, call, raced>>

Archive(o) == "archive" \in Changes /\ Move(o, {"live"}, "archived")
              /\ UNCHANGED share
Restore(o) == "archive" \in Changes /\ Move(o, {"archived"}, "live")
              /\ UNCHANGED share
Delete(o) == "delete" \in Changes /\ Move(o, {"live", "archived"}, "deleted")
             /\ UNCHANGED share
Cascade(o) == /\ "cascade" \in Changes
              /\ Move(o, {"live", "archived", "deleted"}, "gone")
              /\ share' = [s \in ShareIds |->
                             IF share[s] # Null /\ share[s].object = o
                             THEN Null ELSE share[s]]

Disable(v) ==
  /\ "disable" \in Changes /\ active[v] /\ active' = [active EXCEPT ![v] = FALSE]
  /\ UNCHANGED <<state, share, pc, call, raced>>

Expire(s) ==
  /\ "expire" \in Changes /\ share[s] # Null /\ share[s].expiry = "ahead"
  /\ share' = [share EXCEPT ![s].expiry = "past"]
  /\ UNCHANGED <<state, active, pc, call, raced>>

Statement(r) ==
  \/ pc[r] = "findTarget" /\ FindTarget(r)
  \/ pc[r] = "checkDuplicate" /\ CheckDuplicate(r)
  \/ pc[r] = "readKey" /\ ReadNamespaceKey(r)
  \/ pc[r] = "insert" /\ InsertShare(r)

Next ==
  \/ \E r \in Requests :
       \/ \E o \in Objects, k \in {KeyOf[v] : v \in Vaults} :
            \E expiry \in {"never", "ahead"} : FindSource(r, o, k, expiry)
       \/ Statement(r)
  \/ \E s \in ShareIds : RevokeShare(s) \/ Expire(s)
  \/ \E o \in Objects : Archive(o) \/ Restore(o) \/ Delete(o) \/ Cascade(o)
  \/ \E v \in Vaults : Disable(v)

Spec == Init /\ [][Next]_vars

-----------------------------------------------------------------------------
(* Properties. *)

\* The type of every variable.
TypeOK ==
  /\ state \in [Objects -> {"live", "archived", "deleted", "gone"}]
  /\ active \in [Vaults -> BOOLEAN] /\ raced \subseteq Objects \X Vaults
  /\ share \in [ShareIds -> Row \cup {Null}]
  /\ pc \in [Requests -> Labels] /\ call \in [Requests -> Call \cup {Null}]

SharesOf(o, v) ==
  {s \in ShareIds : InForce(s) /\ share[s].object = o /\ share[s].to = v}

\* "Prevent duplicate active shares": an object is shared with a vault at most
\* once at a time, whatever expires, is revoked, deleted or disabled between the
\* statements, as long as no two sharings of the two overtook the check.
OneActiveShare ==
  \A o \in Objects, v \in Vaults :
    <<o, v>> \notin raced => Cardinality(SharesOf(o, v)) <= 1

\* Those that did overtook it together, so that they are no more than the
\* requests at work at one time: an object never has more shares in force with
\* a vault than that, however often it is shared again and again.
SharesBounded ==
  \A o \in Objects, v \in Vaults :
    Cardinality(SharesOf(o, v)) <= Cardinality(Requests)
=============================================================================
