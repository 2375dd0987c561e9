-------------------------------- MODULE Assign --------------------------------
(***************************************************************************)
(* The catalogue one serial line of one daemon frames with: its assignment at  *)
(* the gateway (backend catalogs.rs), the sessions that carry it there          *)
(* (backend ingest/mod.rs), the pull at the start of a session and the status   *)
(* that reports back (forward.rs), and what the daemon remembers over a restart *)
(* (catalogues.rs).                                                            *)
(*                                                                         *)
(* Several sinks name the line in their HELLO (its framed and raw streams go to *)
(* different databases); one of them owns it.  A sink has one connection here;  *)
(* what an earlier one still had in flight is in `late`.                       *)
(***************************************************************************)
EXTENDS Integers, Sequences, Functions

CONSTANTS
    Sinks,       \* the daemon's sinks whose HELLO names the line
    Owner,       \* the one whose pull decides what the line frames with
    Shas,        \* catalogue blobs
    MaxChanges,  \* bound: changes of the assignment
    MaxFaults    \* bound: crashes, timeouts, failures of the meta database or disk

None == "none"    \* no assignment
Local == "local"  \* the catalogue of /etc, or none

ASSUME AssignAssumption ==
    Owner \in Sinks /\ {None, Local} \cap Shas = {} /\ MaxChanges \in Nat /\ MaxFaults \in Nat

VARIABLES
    assigned,    \* catalog_assignments: the SHA, or None
    owed,        \* committed changes whose Sessions::reassign is still to run
    session,     \* sink -> its session at the gateway
    told,        \* sessions whose Notify holds a permit
    active,      \* daemon_active: what was last reported
    got,         \* sink -> the assignment its HELLO_ACK carried
    at,          \* sink -> where it is
    up,          \* sink -> reports on their way
    late,        \* reports of connections given up
    ticked,      \* sink -> catalogue_changes.has_changed()
    rules,       \* Line.rules: a SHA, or Local
    refused,     \* Catalogues.refused: a SHA, or None
    held,        \* Catalogues.assigned: a SHA, or None
    remembered,  \* the same in assignments.json
    blobs,       \* the blobs in the state directory
    unread,      \* history: sinks whose session could not read the assignment
    raced,       \* history: sinks whose session was opening when it changed
    silent,      \* history: sinks whose session missed a change with no reassign
    damaged,     \* history: blobs the state directory lost
    forgot,      \* history: the last write of assignments.json failed
    muddled,     \* history: a report was lost or came late
    changes, faults

daemon == <<rules, refused, held, remembered, blobs, forgot>>
history == <<unread, raced, silent, damaged, muddled>>
vars == <<assigned, owed, session, told, active, got, at, up, late, ticked, daemon, history, changes, faults>>

Fault == faults < MaxFaults /\ faults' = faults + 1

Report == [active |-> rules, refused |-> refused]

Init ==
    /\ assigned = None /\ owed = 0 /\ told = {} /\ late = {}
    /\ session = [s \in Sinks |-> "none"] /\ at = [s \in Sinks |-> "off"]
    /\ got = [s \in Sinks |-> None] /\ up = [s \in Sinks |-> <<>>]
    /\ ticked = [s \in Sinks |-> FALSE]
    /\ rules = Local /\ refused = None /\ held = None /\ remembered = None /\ blobs = {}
    /\ active = [active |-> Local, refused |-> None]
    /\ unread = {} /\ raced = {} /\ silent = {} /\ damaged = {} /\ forgot = FALSE /\ muddled = FALSE
    /\ changes = 0 /\ faults = 0
-----------------------------------------------------------------------------
(* The gateway. *)

(* assign and clear: under the line's lock, what is assigned changes, or the     *)
(* request conflicts or repeats it and nothing does.                            *)
Change ==
    /\ changes < MaxChanges
    /\ \E a \in Shas \cup {None} : a # assigned /\ assigned' = a
    /\ owed' = owed + 1 /\ changes' = changes + 1
    /\ UNCHANGED <<session, told, active, got, at, up, late, ticked, daemon, history, faults>>

(* The commit is applied but its answer is lost: the request fails before         *)
(* Sessions::reassign, and a retry finds nothing to change.                     *)
ChangeUnanswered ==
    /\ changes < MaxChanges /\ Fault
    /\ \E a \in Shas \cup {None} : a # assigned /\ assigned' = a
    /\ changes' = changes + 1
    /\ silent' = silent \cup {s \in Sinks : session[s] \in {"read", "open"}}
    /\ UNCHANGED <<owed, session, told, active, got, at, up, late, ticked, daemon, unread, raced, damaged, muddled>>

Opened == {s \in Sinks : session[s] = "open"}
TellNobody == UNCHANGED told
Tell == told' = told \cup Opened

(* Sessions::reassign, once the change is committed. *)
Reassign ==
    /\ owed > 0 /\ owed' = owed - 1
    /\ Tell
    /\ raced' = raced \cup {s \in Sinks : session[s] = "read"}
    /\ UNCHANGED <<assigned, session, active, got, at, up, late, ticked, daemon, unread, silent, damaged, muddled, changes, faults>>

(* daemon_hello: read the assignment; a failure answers that there is none. *)
ReadAssignment(s) ==
    /\ session[s] = "hello"
    /\ session' = [session EXCEPT ![s] = "read"]
    /\ \/ got' = [got EXCEPT ![s] = assigned] /\ UNCHANGED <<unread, faults>>
       \/ Fault /\ got' = [got EXCEPT ![s] = None] /\ unread' = unread \cup {s}
    /\ UNCHANGED <<assigned, owed, told, active, at, up, late, ticked, daemon, raced, silent, damaged, muddled, changes>>

(* handle_hello from Sessions::open on: the session is live, and HELLO_ACK goes. *)
OpenSession(s) ==
    /\ session[s] = "read"
    /\ session' = [session EXCEPT ![s] = "open"]
    /\ at' = [at EXCEPT ![s] = "acked"]
    /\ UNCHANGED <<assigned, owed, told, active, got, up, late, ticked, daemon, history, changes, faults>>

(* serve, woken by the permit: CLOSE, and what was not yet read is gone. *)
CloseReassigned(s) ==
    /\ session[s] = "open" /\ s \in told
    /\ session' = [session EXCEPT ![s] = "closed"] /\ told' = told \ {s}
    /\ up' = [up EXCEPT ![s] = <<>>]
    /\ UNCHANGED <<assigned, owed, active, got, at, late, ticked, daemon, history, changes, faults>>

(* catalog_status: the row is replaced, or the failure is logged. *)
RecordStatus(s) ==
    /\ session[s] = "open" /\ up[s] # <<>>
    /\ up' = [up EXCEPT ![s] = Tail(@)]
    /\ \/ active' = Head(up[s]) /\ UNCHANGED <<muddled, faults>>
       \/ Fault /\ muddled' = TRUE /\ UNCHANGED active
    /\ UNCHANGED <<assigned, owed, session, told, got, at, late, ticked, daemon, unread, raced, silent, damaged, changes>>

(* The same, in a session whose daemon has given up on it. *)
RecordLate ==
    /\ \E r \in late : late' = late \ {r} /\ active' = r
    /\ muddled' = TRUE
    /\ UNCHANGED <<assigned, owed, session, told, got, at, up, ticked, daemon, unread, raced, silent, damaged, changes, faults>>
-----------------------------------------------------------------------------
(* The daemon. *)

(* connect: dial and HELLO. *)
Connect(s) ==
    /\ at[s] = "off"
    /\ at' = [at EXCEPT ![s] = "hello"] /\ session' = [session EXCEPT ![s] = "hello"]
    /\ UNCHANGED <<assigned, owed, told, active, got, up, late, ticked, daemon, history, changes, faults>>

TickSelf == ticked' = [ticked EXCEPT ![Owner] = TRUE]
Tick == ticked' = [s \in Sinks |-> TRUE]

(* apply of one update, but for assignments.json: the line's rules, its          *)
(* refusal, what is held, and a tick for every sink if a status would differ.    *)
Apply(r, ref, h) ==
    /\ rules' = r /\ refused' = ref /\ held' = h
    /\ IF rules' # rules \/ refused' # refused THEN Tick ELSE UNCHANGED ticked

(* The file is written only when what is held has changed. *)
AfterApply(s) == at' = [at EXCEPT ![s] = IF held' # held THEN "remember" ELSE "status"]

(* pull: an assignment that is gone or whose blob is in the state directory is   *)
(* applied at once; a blob that is not there has to be fetched.                 *)
Pull(s) ==
    /\ at[s] = "acked"
    /\ \/ /\ s # Owner
          /\ at' = [at EXCEPT ![s] = "status"] /\ UNCHANGED <<rules, refused, held, ticked>>
       \/ /\ s = Owner /\ got[s] \in blobs \cup {None}
          /\ Apply(IF got[s] = None THEN Local ELSE got[s], None, got[s])
          /\ AfterApply(s)
       \/ /\ s = Owner /\ got[s] \notin blobs \cup {None}
          /\ at' = [at EXCEPT ![s] = "fetch"] /\ UNCHANGED <<rules, refused, held, ticked>>
    /\ UNCHANGED <<assigned, owed, session, told, active, got, up, late, remembered, blobs, forgot, history, changes, faults>>

StoreNothing(sha) == UNCHANGED blobs
Store(sha) == blobs' = blobs \cup {sha}

(* catalogue: the blob comes in whole and is kept before anything points to it. *)
Fetch(s) ==
    /\ at[s] = "fetch" /\ session[s] = "open"
    /\ Store(got[s]) /\ damaged' = damaged \ {got[s]}
    /\ at' = [at EXCEPT ![s] = "apply"]
    /\ UNCHANGED <<assigned, owed, session, told, active, got, up, late, ticked, rules, refused, held, remembered, forgot, unread, raced, silent, muddled, changes, faults>>

ApplyFetched(s) ==
    /\ at[s] = "apply"
    /\ Apply(got[s], None, got[s]) /\ AfterApply(s)
    /\ UNCHANGED <<assigned, owed, session, told, active, got, up, late, remembered, blobs, forgot, history, changes, faults>>

(* The fetch or the store fails: the line keeps what it has, and the session     *)
(* goes on.                                                                    *)
FetchFails(s) ==
    /\ at[s] = "fetch"
    /\ (IF session[s] = "closed" THEN UNCHANGED faults ELSE Fault)
    /\ Apply(rules, got[s], held)
    /\ at' = [at EXCEPT ![s] = "status"]
    /\ UNCHANGED <<assigned, owed, session, told, active, got, up, late, remembered, blobs, forgot, history, changes>>

RememberAssigned == remembered' = IF held = None THEN remembered ELSE held
Remember == remembered' = held

(* The end of apply: assignments.json, which may fail to be written. *)
SaveAssignments(s) ==
    /\ at[s] = "remember"
    /\ \/ Remember /\ forgot' = FALSE /\ UNCHANGED faults
       \/ Fault /\ forgot' = TRUE /\ UNCHANGED remembered
    /\ at' = [at EXCEPT ![s] = "status"]
    /\ UNCHANGED <<assigned, owed, session, told, active, got, up, late, ticked, rules, refused, held, blobs, history, changes>>

(* status_message, mark_unchanged: at the end of connect, and before a batch or  *)
(* a PING after a tick.                                                        *)
MarkUnchanged(s) ==
    /\ at[s] = "status" \/ (at[s] = "up" /\ ticked[s])
    /\ ticked' = [ticked EXCEPT ![s] = FALSE]
    /\ at' = [at EXCEPT ![s] = "report"]
    /\ UNCHANGED <<assigned, owed, session, told, active, got, up, late, daemon, history, changes, faults>>

(* status_message: read the state, under the lock that apply holds to its end. *)
SendStatus(s) ==
    /\ at[s] = "report" /\ at[Owner] # "remember"
    /\ up' = [up EXCEPT ![s] = IF session[s] = "open" THEN Append(@, Report) ELSE @]
    /\ at' = [at EXCEPT ![s] = "up"]
    /\ UNCHANGED <<assigned, owed, session, told, active, got, late, ticked, daemon, history, changes, faults>>

(* The connections of S are gone with all that belonged to them, but for the      *)
(* reports the gateway may still read.                                          *)
Drop(S) ==
    /\ at' = [s \in Sinks |-> IF s \in S THEN "off" ELSE at[s]]
    /\ session' = [s \in Sinks |-> IF s \in S THEN "none" ELSE session[s]]
    /\ got' = [s \in Sinks |-> IF s \in S THEN None ELSE got[s]]
    /\ late' = late \cup UNION {Range(up[s]) : s \in S}
    /\ up' = [s \in Sinks |-> IF s \in S THEN <<>> ELSE up[s]]
    /\ told' = told \ S /\ unread' = unread \ S /\ raced' = raced \ S /\ silent' = silent \ S

(* The sink finds its session closed, or gives up on it. *)
Disconnect(s) ==
    /\ at[s] = "up" \/ (at[s] = "hello" /\ session[s] # "open")
    /\ (IF session[s] = "closed" THEN UNCHANGED faults ELSE Fault)
    /\ Drop({s})
    /\ UNCHANGED <<assigned, owed, active, ticked, daemon, damaged, muddled, changes>>

(* remembered_rules: a blob that is gone or does not check is done without. *)
RestartRules(kept) == IF remembered \in kept THEN remembered ELSE Local

(* The daemon dies and starts again, its state directory whole or, after a power  *)
(* cut, short of some blobs: Catalogues::open.                                  *)
Restart ==
    /\ Fault
    /\ \E lost \in SUBSET blobs : blobs' = blobs \ lost /\ damaged' = damaged \cup lost
    /\ rules' = RestartRules(blobs') /\ refused' = None /\ held' = remembered
    /\ Drop(Sinks) /\ ticked' = [s \in Sinks |-> FALSE]
    /\ UNCHANGED <<assigned, owed, active, remembered, forgot, muddled, changes>>

(* The task of a sink's session at the gateway, and that of the sink. *)
Serve(s) == ReadAssignment(s) \/ OpenSession(s) \/ CloseReassigned(s) \/ RecordStatus(s)
Forward(s) ==
    \/ Connect(s) \/ Pull(s) \/ Fetch(s) \/ ApplyFetched(s) \/ FetchFails(s)
    \/ SaveAssignments(s) \/ MarkUnchanged(s) \/ SendStatus(s)

Next ==
    \/ Change \/ ChangeUnanswered \/ Reassign \/ RecordLate \/ Restart
    \/ \E s \in Sinks : Serve(s) \/ Forward(s) \/ Disconnect(s)

Spec == Init /\ [][Next]_vars

(* The tasks on both sides keep running; a sink notices a closed session at its  *)
(* next PING at the latest.                                                    *)
LiveSpec ==
    /\ Spec /\ WF_vars(Reassign)
    /\ \A s \in Sinks :
         /\ WF_vars(Serve(s))
         /\ WF_vars(Forward(s) \/ (session[s] = "closed" /\ Disconnect(s)))
-----------------------------------------------------------------------------
(* assignments.json never names a blob that was not kept, wherever the daemon is  *)
(* killed: store comes before apply.  Only a blob the disk lost is missing.       *)
RememberedHeld == remembered # None => remembered \in blobs \cup damaged

(* A daemon killed at any point between two pulls frames on with the catalogue   *)
(* it framed with, unless assignments.json could not be written; if its blob is   *)
(* lost with it, it frames with its own until the next pull.                     *)
FramesAsBefore ==
    ~forgot /\ at[Owner] \notin {"apply", "remember"} => rules = RestartRules(blobs)

(* No session stays live on an outdated assignment without being about to be     *)
(* told, except one that was opening during the change or could not read, and    *)
(* one that missed a change whose commit was not answered.                       *)
StaleIsTold ==
    \A s \in Opened : got[s] # assigned => s \in told \cup raced \cup unread \cup silent \/ owed > 0

Effective == IF assigned = None THEN Local ELSE assigned

(* What the gateway assigns, or clears, is what the line frames with in the end,  *)
(* unless an assigned blob was refused or the owner's session raced with the      *)
(* change, could not read it or missed it: then the line waits for a reconnect.   *)
CatalogueArrives ==
    <>[] \/ rules = Effective
         \/ assigned # None /\ refused = assigned
         \/ Owner \in raced \cup unread \cup silent

(* Whatever order the sinks' reports arrive in, the gateway shows in the end what *)
(* the line frames with and refused, unless a report was lost or came in late.    *)
StatusConverges == <>[](active = Report \/ muddled)

(* ingest-protocol.md: "When a daemon's assignment changes, the gateway closes    *)
(* that daemon's sessions whose `HELLO` named the interface".                     *)
NamedSessionsClosed ==
    \A s \in Opened \ unread : got[s] # assigned => s \in told \/ owed > 0

(* daemon_hello: the meta database failing costs the daemon its assignments, and  *)
(* "it keeps the catalogues it has".                                            *)
KeepsCatalogues ==
    [][at[Owner] = "acked" /\ at'[Owner] # "off" /\ Owner \in unread => rules' = rules]_vars
=============================================================================
