------------------------------- MODULE PRServ -------------------------------
(***************************************************************************)
(* BitBake's PR service: lib/prserv (the table of PR values and the server *)
(* that hands them out) and the connection handling it takes from          *)
(* bb.asyncrpc.                                                            *)
(*                                                                         *)
(* One process, one event loop: a message is dispatched without being      *)
(* interrupted by another.  What interleaves is everything around it: the  *)
(* requests of several clients, connections that break before or after     *)
(* the request was carried out, the client's retries, SIGTERM, a crash.    *)
(*                                                                         *)
(* The table is written inside one exclusive SQLite transaction.  "db" is  *)
(* what the server's own connection sees, "disk" what has been committed.  *)
(***************************************************************************)
EXTENDS Integers

CONSTANTS
  Clients,             \* tasks of builds that ask for a PR
  Packages,            \* a pair (version, pkgarch)
  Checksums,
  Null,                \* a request leaves a field of the row's key null
  Imports,             \* bound: the values that prserv_import_db may bring
  MaxTries,            \* retries of a call before the client gives up: 3 in the code
  MaxCalls,            \* bound: calls made by the clients
  MaxTroubles          \* bound: broken connections, stops and crashes together

ASSUME SetsAssumption  == Packages # {} /\ Checksums # {} /\ Imports \subseteq Nat
ASSUME NullAssumption  == Null \notin Checksums
ASSUME BoundAssumption == MaxTries \in Nat /\ MaxCalls \in Nat /\ MaxTroubles \in Nat

None == -1             \* no row in the table, no PR known yet, a null answer

Request == [op : {"get-pr", "import-one"}, pkg : Packages, chk : Checksums \cup {Null},
            val : Imports \cup {None}]
Answer  == [val : Nat \cup {None}, rw : BOOLEAN]
Table   == [Packages -> [Checksums -> Nat \cup {None}]]
PR      == [pkg : Packages, chk : Checksums, val : Nat]

VARIABLES
  server,              \* "up", "stopping" (SIGTERM seen) or "down"
  read_only, dirty,
  db, disk,
  pc, req, ans, count, \* per client: where the call is, what it asks, retries
  stray,               \* requests left on connections their client has given up
  calls, troubles,
  known,               \* history: the largest PR of a package a client got
  floor,               \* history: per client, "known" when its call was made
  given,               \* history: PRs handed out by get-pr and recorded
  imported,            \* history: values that import-one brought
  safe,                \* history: PRs handed out that a commit found on record
  lost,                \* history: rows not yet committed were thrown away
  damaged              \* history: a crash left the file with some rows only

table   == <<db, dirty>>
client  == <<pc, req, ans, count, floor>>
history == <<known, given, imported, safe, lost, damaged>>
bounds  == <<calls, troubles>>
vars == <<server, read_only, table, disk, client, stray, bounds, history>>

-----------------------------------------------------------------------------
(* The table: lib/prserv/db.py *)

\* select max(value) ... where version=? and pkgarch=?
find_max_value(t) == CHOOSE v \in {t[c] : c \in Checksums} :
                       \A c \in Checksums : t[c] <= v

\* Mutant: the next value is the largest one, not one above it
MaxPlusNothing(t) == IF find_max_value(t) = None THEN 0 ELSE find_max_value(t)

\* Mutant: max(value)+1 of no rows is NULL
WithoutIfnull(t) == IF find_max_value(t) = None THEN None ELSE find_max_value(t) + 1

\* ifnull(max(value)+1, 0)
NextValue(t) == find_max_value(t) + 1

\* Mutant: any row is good enough, as in the mode with history
AnyRow(t, c) == c # Null /\ t[c] # None

\* ... AND value >= (select max(value) ...); no row's checksum equals NULL
Found(t, c) == c # Null /\ t[c] # None /\ t[c] >= find_max_value(t)

get_value(t, c) == IF Found(t, c) THEN t[c] ELSE NextValue(t)

\* importone: the larger value stays
ImportedValue(t, r) == IF t[r.chk] < r.val THEN r.val ELSE t[r.chk]

-----------------------------------------------------------------------------
(* The server: lib/prserv/serv.py *)

Serving == server \in {"up", "stopping"}

\* One more of the bounded troubles
Trouble == troubles < MaxTroubles /\ troubles' = troubles + 1

NoRequest == [op |-> "get-pr", pkg |-> CHOOSE p \in Packages : TRUE,
              chk |-> CHOOSE c \in Checksums : TRUE, val |-> None]
NoAnswer  == [val |-> 0, rw |-> FALSE]

\* The first start made the table; a read-only server needs it there
Init ==
  /\ server = "up" /\ read_only = FALSE /\ dirty = FALSE
  /\ db = [p \in Packages |-> [c \in Checksums |-> None]]
  /\ disk = db
  /\ pc = [c \in Clients |-> "idle"]
  /\ req = [c \in Clients |-> NoRequest]
  /\ ans = [c \in Clients |-> NoAnswer]
  /\ count = [c \in Clients |-> 0]
  /\ floor = [c \in Clients |-> None]
  /\ stray = {}
  /\ calls = 0 /\ troubles = 0
  /\ known = [p \in Packages |-> None]
  /\ given = {}
  /\ imported = {}
  /\ safe = {}
  /\ lost = FALSE /\ damaged = FALSE

\* PRServer.start: open the database, take the table
Start ==
  /\ server = "down"
  /\ server' = "up"
  /\ read_only' \in BOOLEAN
  /\ UNCHANGED <<table, disk, client, stray, bounds, history>>

\* The row of request r is inserted or replaced
Put(r, v) == db' = [db EXCEPT ![r.pkg][r.chk] = v]

\* Whether rows are thrown away when the server's table becomes d
LostBy(d) == lost \/ d # db

\* Mutant: a new row is not marked to be committed
NotMarkedDirty(r) == dirty

\* self.dirty = True, unless the row was found
DirtyAfter(r) == dirty \/ ~Found(db[r.pkg], r.chk)

\* handle_get_pr.  A server opened read-only makes up the next value and keeps
\* no record of it.  A null checksum breaks NOT NULL: the INSERT fails, and the
\* rollback takes everything that is not committed with it
GetPR(r) ==
  /\ r.op = "get-pr"
  /\ \/ read_only /\ UNCHANGED <<table, given, lost>>
     \/ /\ ~read_only /\ r.chk # Null
        /\ LET v == get_value(db[r.pkg], r.chk)
           IN  Put(r, v) /\ given' = given \cup {[pkg |-> r.pkg, chk |-> r.chk, val |-> v]}
        /\ dirty' = DirtyAfter(r)
        /\ UNCHANGED lost
     \/ /\ ~read_only /\ r.chk = Null
        /\ db' = disk /\ dirty' = TRUE
        /\ lost' = LostBy(disk)
        /\ UNCHANGED given
  /\ UNCHANGED imported

\* handle_import_one
ImportOne(r) ==
  /\ r.op = "import-one"
  /\ \/ read_only /\ UNCHANGED <<table, imported>>
     \/ /\ ~read_only
        /\ Put(r, ImportedValue(db[r.pkg], r))
        /\ imported' = imported \cup {[pkg |-> r.pkg, val |-> r.val]}
        /\ dirty' = TRUE
  /\ UNCHANGED <<given, lost>>

\* dispatch_message: its "return" inside the "try" leaves before the "else"
\* that would call sync_if_dirty, so an answered message commits nothing
Dispatch(r) ==
  /\ Serving
  /\ GetPR(r) \/ ImportOne(r)
  /\ UNCHANGED <<server, read_only, disk, count, floor, req, bounds, known, safe, damaged>>

\* What is answered: the PR, the row that the import left, or null
AnswerTo(r) ==
  [val |-> CASE r.op = "get-pr" /\ (read_only \/ r.chk # Null) -> get_value(db[r.pkg], r.chk)
             [] r.op = "import-one" /\ ~read_only -> ImportedValue(db[r.pkg], r)
             [] OTHER -> None,
   rw  |-> ~read_only]

Handle(c) ==
  /\ pc[c] = "sent"
  /\ Dispatch(req[c])
  /\ ans' = [ans EXCEPT ![c] = AnswerTo(req[c])]
  /\ pc' = [pc EXCEPT ![c] = "answered"]
  /\ UNCHANGED stray

\* A request is carried out although its client has given the connection up
HandleStray(r) ==
  /\ r \in stray
  /\ Dispatch(r)
  /\ stray' = stray \ {r}
  /\ UNCHANGED <<pc, ans>>

\* PRTable.sync
Synced == IF read_only THEN disk ELSE db

\* Mutant: nothing is committed when the server stops
StopWithoutSync == disk

\* PRTable.sync_if_dirty
SyncedIfDirty == IF dirty THEN Synced ELSE disk

\* What a commit finds on record is meant to be kept
Committing ==
  safe' = safe \cup {g \in given : db[g.pkg][g.chk] >= g.val}

\* A message no handler accepts: dispatch_message syncs and closes that connection
DispatchFails ==
  /\ Serving
  /\ disk' = Synced
  /\ Committing
  /\ UNCHANGED <<server, read_only, table, client, stray, bounds, known, given, imported, lost, damaged>>

\* signal_handler: queue the stop task, then sync
Terminate ==
  /\ server = "up"
  /\ Trouble
  /\ server' = "stopping"
  /\ disk' = Synced
  /\ Committing
  /\ UNCHANGED <<read_only, table, client, stray, calls, known, given, imported, lost, damaged>>

\* The connections of the requests under way go down with the server
ConnectionsBreak ==
  pc' = [c \in Clients |-> IF pc[c] = "sent" THEN "broken" ELSE pc[c]]

\* stop: what came in after the signal is committed, the database closed
Stop ==
  /\ server = "stopping"
  /\ server' = "down"
  /\ disk' = SyncedIfDirty
  /\ Committing
  /\ db' = disk' /\ dirty' = FALSE
  /\ stray' = {}
  /\ ConnectionsBreak
  /\ UNCHANGED <<read_only, req, ans, count, floor, bounds, known, given, imported, lost, damaged>>

\* synchronous = off and a journal in memory: when the process is killed while
\* the pages of a commit are written, or the power fails, each row of the file
\* may be the old one, the new one or gone; what the histories say of the table
\* begins anew
FileDamaged ==
  /\ damaged' = TRUE /\ lost' = TRUE
  /\ given' = {} /\ safe' = {} /\ imported' = {}
  /\ \E gone, written \in SUBSET (Packages \X Checksums) :
       disk' = [p \in Packages |-> [c \in Checksums |->
                  IF <<p, c>> \in gone THEN None
                  ELSE IF <<p, c>> \in written THEN db[p][c] ELSE disk[p][c]]]

\* The process is killed: the open transaction is gone
Crash ==
  /\ Serving
  /\ Trouble
  /\ server' = "down"
  /\ \/ FileDamaged
     \/ lost' = LostBy(disk) /\ UNCHANGED <<disk, given, imported, safe, damaged>>
  /\ db' = disk' /\ dirty' = FALSE
  /\ stray' = {}
  /\ ConnectionsBreak
  /\ UNCHANGED <<read_only, req, ans, count, floor, calls, known>>

-----------------------------------------------------------------------------
(* The clients: lib/prserv/client.py over lib/bb/asyncrpc/client.py *)

call == <<pc, req, count, floor>>
service == <<server, read_only, table, disk>>

Call(c, r) ==
  /\ pc[c] = "idle" /\ calls < MaxCalls
  /\ calls' = calls + 1
  /\ pc' = [pc EXCEPT ![c] = "sent"]
  /\ req' = [req EXCEPT ![c] = r]
  /\ floor' = [floor EXCEPT ![c] = known[r.pkg]]
  /\ UNCHANGED <<service, ans, count, stray, troubles, history>>

\* The call is over, and its variables with it
Ends(c) ==
  /\ pc' = [pc EXCEPT ![c] = "idle"]
  /\ req' = [req EXCEPT ![c] = NoRequest]
  /\ ans' = [ans EXCEPT ![c] = NoAnswer]
  /\ count' = [count EXCEPT ![c] = 0]
  /\ floor' = [floor EXCEPT ![c] = None]

\* The answer arrives; a PR is remembered when the service has recorded it
Receive(c) ==
  /\ pc[c] = "answered"
  /\ Ends(c)
  /\ known' = IF req[c].op = "get-pr" /\ ans[c].rw /\ known[req[c].pkg] < ans[c].val
              THEN [known EXCEPT ![req[c].pkg] = ans[c].val]
              ELSE known
  /\ UNCHANGED <<service, stray, bounds, given, imported, safe, lost, damaged>>

\* The connection breaks, or 30 s pass without an answer; a request that was not
\* carried out yet may still be
Break(c) ==
  /\ pc[c] \in {"sent", "answered"}
  /\ Trouble
  /\ pc' = [pc EXCEPT ![c] = "broken"]
  /\ ans' = [ans EXCEPT ![c] = NoAnswer]
  /\ stray' \in {stray, IF pc[c] = "sent" /\ Serving THEN stray \cup {req[c]} ELSE stray}
  /\ UNCHANGED <<service, req, count, floor, calls, history>>

\* Nobody listens
Refused(c) ==
  /\ pc[c] \in {"sent", "answered"} /\ server = "down"
  /\ pc' = [pc EXCEPT ![c] = "broken"]
  /\ ans' = [ans EXCEPT ![c] = NoAnswer]
  /\ UNCHANGED <<service, req, count, floor, stray, bounds, history>>

\* Mutant: retries are not counted
NotCounted(n) == n

Counted(n) == n + 1

\* _send_wrapper: reconnect and send the whole message again
Retry(c) ==
  /\ pc[c] = "broken" /\ count[c] < MaxTries
  /\ count' = [count EXCEPT ![c] = Counted(count[c])]
  /\ pc' = [pc EXCEPT ![c] = "sent"]
  /\ UNCHANGED <<service, req, ans, floor, stray, bounds, history>>

GiveUp(c) ==
  /\ pc[c] = "broken" /\ count[c] >= MaxTries
  /\ Ends(c)
  /\ UNCHANGED <<service, stray, bounds, history>>

-----------------------------------------------------------------------------
\* prserv_import_db takes the fields of a row from a variable's name and value:
\* none of them is null
Calls == {r \in Request : IF r.op = "get-pr" THEN r.val = None ELSE r.val # None /\ r.chk # Null}

Progress(c) == Handle(c) \/ Receive(c) \/ Refused(c) \/ Retry(c) \/ GiveUp(c)

Next ==
  \/ Start \/ DispatchFails \/ Terminate \/ Stop \/ Crash
  \/ \E r \in stray : HandleStray(r)
  \/ \E c \in Clients : Progress(c) \/ Break(c) \/ \E r \in Calls : Call(c, r)

\* The event loop goes on, TCP delivers or reports an error
Fairness == WF_vars(Stop) /\ \A c \in Clients : WF_vars(Progress(c))

Spec == Init /\ [][Next]_vars /\ Fairness

TypeOK ==
  /\ server \in {"up", "stopping", "down"}
  /\ read_only \in BOOLEAN /\ dirty \in BOOLEAN
  /\ db \in Table /\ disk \in Table
  /\ pc \in [Clients -> {"idle", "sent", "answered", "broken"}]
  /\ req \in [Clients -> Calls]
  /\ ans \in [Clients -> Answer]
  /\ count \in [Clients -> 0..MaxTries]
  /\ floor \in [Clients -> Nat \cup {None}]
  /\ stray \subseteq Calls
  /\ calls \in 0..MaxCalls /\ troubles \in 0..MaxTroubles
  /\ known \in [Packages -> Nat \cup {None}]
  /\ given \subseteq PR /\ safe \subseteq PR
  /\ imported \subseteq [pkg : Packages, val : Nat]
  /\ lost \in BOOLEAN /\ damaged \in BOOLEAN

(* Whether what the client holds is no step back for it: a PR is never      *)
(* lower than one somebody had got for the package when the call was made.  *)
NoStepBack(c) ==
  pc[c] = "answered" /\ req[c].op = "get-pr" /\ ans[c].val # None => ans[c].val >= floor[c]

(* As long as no row has been thrown away before it was committed (by a     *)
(* kill, or by the rollback that a request with a null field brings about)   *)
(* a PR does not go back, whatever is retried, lost, carried out late or     *)
(* left over when the server is stopped and started again.                   *)
AnswersDoNotGoBack == ~lost => \A c \in Clients : NoStepBack(c)

(* The head of db.py says it without that condition: "the PR value returned  *)
(* can NOT be decremented" (a file that a crash has damaged is set aside).   *)
NeverDecremented == ~damaged => \A c \in Clients : NoStepBack(c)

(* Two builds of a package never get the same PR, unless an import gave two  *)
(* checksums the same value or a row was thrown away.                        *)
OneChecksumPerPR ==
  ~lost => \A g, h \in given :
    g.pkg = h.pkg /\ g.val = h.val /\ g.chk # h.chk
    => [pkg |-> g.pkg, val |-> g.val] \in imported

(* Every PR that was handed out is on record, at that value or a higher one, *)
(* also when requests were still carried out after the signal to stop.       *)
GivenIsKept ==
  ~lost => \A g \in given : db[g.pkg][g.chk] >= g.val

(* What was on record when the server committed (on SIGTERM, at its end,     *)
(* after a message nobody handles) stays on record, at that value or a       *)
(* higher one: a later rollback or kill of the server does not take it back, *)
(* only a crash that damages the file does.  It rests on "dirty" being set   *)
(* whenever there is something to commit.                                    *)
CommittedIsKept ==
  ~damaged => \A g \in safe : db[g.pkg][g.chk] >= g.val

(* A call ends, with an answer or an error, although the server may stop     *)
(* under it and stay away.                                                   *)
CallEnds == \A c \in Clients : pc[c] # "idle" ~> pc[c] = "idle"

=============================================================================
