---------------------------- MODULE PRServ_proofs ----------------------------
(***************************************************************************)
(* Proofs about the PR service, for any clients, packages and checksums.   *)
(*                                                                         *)
(* What carries all of them is that a row of the table only grows until    *)
(* something is thrown away, that the file is never ahead of the table and *)
(* that a package's rows have a largest one (HasMax).  The latter needs no *)
(* finiteness: it is kept step by step, through a damaged file too,        *)
(* because what a crash leaves is bounded by what was there.               *)
(***************************************************************************)
EXTENDS PRServ, WellFoundedInduction, TLAPS

Row == [Checksums -> Nat \cup {None}]

HasMax(t) == \E m \in Checksums : \A c \in Checksums : t[c] <= t[m]

\* The largest value is one of the row's, and bounds them all
LEMMA MaxIsLargest ==
  ASSUME NEW t \in Row, HasMax(t)
  PROVE  /\ find_max_value(t) \in Nat \cup {None}
         /\ \A c \in Checksums : t[c] <= find_max_value(t)
         /\ \E c \in Checksums : t[c] = find_max_value(t)
  <1>1. PICK m \in Checksums : \A c \in Checksums : t[c] <= t[m]
    BY DEF HasMax
  <1>2. \E v \in {t[c] : c \in Checksums} : \A c \in Checksums : t[c] <= v
    BY <1>1
  <1>3. /\ find_max_value(t) \in {t[c] : c \in Checksums}
        /\ \A c \in Checksums : t[c] <= find_max_value(t)
    BY <1>2 DEF find_max_value
  <1> QED
    BY <1>3 DEF Row

\* A row that grows in one place still has a largest value, and none is smaller
LEMMA PutGrows ==
  ASSUME NEW t \in Row, HasMax(t), NEW k \in Checksums, NEW v \in Nat, t[k] <= v,
         NEW u, u = [t EXCEPT ![k] = v]
  PROVE  /\ u \in Row /\ HasMax(u)
         /\ \A c \in Checksums : t[c] <= u[c]
         /\ find_max_value(t) <= find_max_value(u)
         /\ v <= find_max_value(u)
  <1>1. u \in Row /\ u[k] = v /\ \A c \in Checksums : c # k => u[c] = t[c]
    BY DEF Row
  <1>2. \A c \in Checksums : t[c] \in Int /\ u[c] \in Int
    BY <1>1 DEF Row, None
  <1>3. \A c \in Checksums : t[c] <= u[c]
    BY <1>1, <1>2
  <1>4. PICK m \in Checksums : \A c \in Checksums : t[c] <= t[m]
    BY DEF HasMax
  <1>5. HasMax(u)
    <2>1. CASE t[m] <= v
      <3>1. \A c \in Checksums : u[c] <= u[k]
        BY <1>1, <1>2, <1>4, <2>1
      <3> QED
        BY <3>1 DEF HasMax
    <2>2. CASE ~(t[m] <= v)
      <3>1. \A c \in Checksums : u[c] <= u[m]
        BY <1>1, <1>2, <1>4, <2>2
      <3> QED
        BY <3>1 DEF HasMax
    <2> QED
      BY <2>1, <2>2
  <1>6. /\ find_max_value(t) \in Int /\ find_max_value(u) \in Int
        /\ u[k] <= find_max_value(u)
    <2>1. find_max_value(t) \in Nat \cup {None}
      BY MaxIsLargest
    <2>2. /\ find_max_value(u) \in Nat \cup {None}
          /\ \A c \in Checksums : u[c] <= find_max_value(u)
      BY <1>1, <1>5, MaxIsLargest
    <2>3. None \in Int
      BY DEF None
    <2>4. u[k] <= find_max_value(u)
      BY <2>2
    <2> QED
      BY <2>1, <2>2, <2>3, <2>4
  <1>7. find_max_value(t) <= find_max_value(u)
    <2>1. PICK c \in Checksums : t[c] = find_max_value(t)
      BY MaxIsLargest
    <2>2. u[c] <= find_max_value(u)
      BY <1>1, <1>5, MaxIsLargest
    <2>3. t[c] <= u[c] /\ t[c] \in Int /\ u[c] \in Int
      BY <1>2, <1>3
    <2> QED
      BY <1>6, <2>1, <2>2, <2>3
  <1> QED
    BY <1>1, <1>3, <1>5, <1>6, <1>7

LEMMA LeastNatural ==
  ASSUME NEW S \in SUBSET Nat, S # {}
  PROVE  \E n \in S : \A m \in S : n <= m
  <1> DEFINE Less == OpToRel(<, Nat)
  <1>1. PICK n \in S : \A m \in S : ~(<<m, n>> \in Less)
    <2>1. IsWellFoundedOn(Less, Nat)
      BY NatLessThanWellFounded
    <2> HIDE DEF Less
    <2> QED
      BY <2>1, WFMin
  <1>2. \A m \in S : ~(m < n)
    BY <1>1 DEF OpToRel
  <1> QED
    BY <1>2

\* Rows below those of a table with a largest one have a largest one
LEMMA BoundedHasMax ==
  ASSUME NEW t \in Row, HasMax(t), NEW u \in Row, \A c \in Checksums : u[c] <= t[c]
  PROVE  HasMax(u)
  <1>1. PICK m \in Checksums : \A c \in Checksums : t[c] <= t[m]
    BY DEF HasMax
  <1> DEFINE gap(c) == t[m] - u[c]
  <1> DEFINE gaps == {gap(c) : c \in Checksums}
  <1>2. \A c \in Checksums : t[c] \in Int /\ u[c] \in Int
    BY DEF Row, None
  <1>3. \A c \in Checksums : gap(c) \in Nat
    BY <1>1, <1>2
  <1>4. PICK n \in gaps : \A k \in gaps : n <= k
    <2>1. gaps \in SUBSET Nat /\ gaps # {}
      BY <1>3, SetsAssumption
    <2> HIDE DEF gaps
    <2> QED
      BY <2>1, LeastNatural
  <1>5. PICK c \in Checksums : n = gap(c)
    BY <1>4
  <1>6. \A d \in Checksums : gap(c) <= gap(d)
    BY <1>4, <1>5
  <1>7. \A d \in Checksums : u[d] <= u[c]
    BY <1>2, <1>6
  <1> QED
    BY <1>7 DEF HasMax

-----------------------------------------------------------------------------
(* Types *)

\* A call to get a PR brings no value, an import one that is a number
LEMMA CallShape ==
  ASSUME NEW r \in Calls
  PROVE  /\ r \in Request
         /\ r.op = "get-pr" \/ r.op = "import-one"
         /\ r.op = "import-one" => r.val \in Nat /\ r.chk \in Checksums
         /\ r.pkg \in Packages /\ r.chk \in Checksums \cup {Null}
  BY SetsAssumption DEF Calls, Request, None

LEMMA NoRequestIsCall == NoRequest \in Calls
  BY SetsAssumption DEF NoRequest, Calls, Request, None

\* What the table answers is a number, at least the row that was there
LEMMA ValueGrows ==
  ASSUME NEW t \in Row, HasMax(t), NEW c \in Checksums \cup {Null}
  PROVE  /\ get_value(t, c) \in Nat
         /\ c \in Checksums => t[c] <= get_value(t, c)
         /\ Found(t, c) => get_value(t, c) = t[c]
         /\ ~Found(t, c) => \A k \in Checksums : t[k] < get_value(t, c)
         /\ get_value(t, c) >= find_max_value(t)
  <1>1. /\ find_max_value(t) \in Nat \cup {None}
        /\ \A k \in Checksums : t[k] <= find_max_value(t)
    BY MaxIsLargest
  <1>2. \A k \in Checksums : t[k] \in Nat \cup {None}
    BY DEF Row
  <1> QED
    BY <1>1, <1>2, NullAssumption DEF get_value, Found, NextValue, None

LEMMA ImportGrows ==
  ASSUME NEW r \in Calls, r.op = "import-one", NEW t \in Row
  PROVE  /\ ImportedValue(t, r) \in Nat
         /\ t[r.chk] <= ImportedValue(t, r)
         /\ ImportedValue(t, r) = r.val \/ ImportedValue(t, r) = t[r.chk]
  <1>1. r.val \in Nat /\ r.chk \in Checksums
    BY CallShape
  <1>2. t[r.chk] \in Nat \cup {None}
    BY <1>1 DEF Row
  <1> QED
    BY <1>1, <1>2 DEF ImportedValue, None

-----------------------------------------------------------------------------
(* What carrying out a request does to the table *)

RowsOf(d) == \A p \in Packages : d[p] \in Row /\ HasMax(d[p])

\* Every row of d2 is at least what it is in d1
RowsGrow(d1, d2) ==
  \A p \in Packages : /\ \A c \in Checksums : d1[p][c] <= d2[p][c]
                      /\ find_max_value(d1[p]) <= find_max_value(d2[p])

LEMMA RowsStay ==
  ASSUME NEW d \in Table, RowsOf(d)
  PROVE  RowsGrow(d, d)
  <1>1. \A p \in Packages : find_max_value(d[p]) \in Nat \cup {None}
    BY MaxIsLargest DEF RowsOf
  <1>2. \A p \in Packages, c \in Checksums : d[p][c] \in Nat \cup {None}
    BY DEF RowsOf, Row
  <1> QED
    BY <1>1, <1>2 DEF RowsGrow, None

\* The table with another value in one row
PutIn(d, q, k, v) == [d EXCEPT ![q][k] = v]

LEMMA PutRow ==
  ASSUME NEW d \in Table, RowsOf(d), NEW q \in Packages, NEW k \in Checksums,
         NEW v \in Nat, d[q][k] <= v
  PROVE  /\ PutIn(d, q, k, v) \in Table
         /\ RowsOf(PutIn(d, q, k, v))
         /\ RowsGrow(d, PutIn(d, q, k, v))
         /\ PutIn(d, q, k, v)[q][k] = v
         /\ v <= find_max_value(PutIn(d, q, k, v)[q])
         /\ \A p \in Packages, c \in Checksums :
              p # q \/ c # k => PutIn(d, q, k, v)[p][c] = d[p][c]
  <1> DEFINE e == PutIn(d, q, k, v)
  <1>1. /\ e[q] = [d[q] EXCEPT ![k] = v]
        /\ \A p \in Packages : p # q => e[p] = d[p]
        /\ d[q] \in Row /\ HasMax(d[q])
    BY DEF Table, RowsOf, PutIn
  <1>2. /\ e[q] \in Row /\ HasMax(e[q])
        /\ \A c \in Checksums : d[q][c] <= e[q][c]
        /\ find_max_value(d[q]) <= find_max_value(e[q])
        /\ v <= find_max_value(e[q])
    BY <1>1, PutGrows
  <1>3. e \in Table
    BY DEF Table, PutIn
  <1>4. RowsOf(e)
    BY <1>1, <1>2 DEF RowsOf
  <1>5. RowsGrow(d, e)
    BY <1>1, <1>2, RowsStay DEF RowsGrow
  <1>6. e[q][k] = v /\ \A c \in Checksums : c # k => e[q][c] = d[q][c]
    BY <1>1 DEF Row
  <1> QED
    BY <1>1, <1>2, <1>3, <1>4, <1>5, <1>6

-----------------------------------------------------------------------------
(* The inductive invariant *)

\* What is committed is behind what the server sees, and equal to it when the
\* server has nothing to commit or is down
DiskInv ==
  /\ \A p \in Packages, c \in Checksums : disk[p][c] <= db[p][c]
  /\ db # disk => dirty /\ ~read_only /\ Serving

\* No client knows or asks for more than the table's largest value
KnownInv ==
  /\ \A p \in Packages : known[p] <= find_max_value(db[p])
  /\ \A c \in Clients : floor[c] <= find_max_value(db[req[c].pkg])
  /\ \A c \in Clients : pc[c] = "answered" /\ req[c].op = "get-pr" /\ ans[c].rw
                        => ans[c].val <= find_max_value(db[req[c].pkg])

\* A row's value was handed out for it or imported
RowOrigin ==
  \A p \in Packages, c \in Checksums :
    db[p][c] # None => \/ [pkg |-> p, chk |-> c, val |-> db[p][c]] \in given
                       \/ [pkg |-> p, val |-> db[p][c]] \in imported

\* GivenIsKept and OneChecksumPerPR without their condition
OnRecord == \A g \in given : db[g.pkg][g.chk] >= g.val
Distinct ==
  \A g, h \in given : g.pkg = h.pkg /\ g.val = h.val /\ g.chk # h.chk
                       => [pkg |-> g.pkg, val |-> g.val] \in imported

GivenInv == RowOrigin /\ OnRecord /\ Distinct

\* What is safe is in the file
SafeInv == \A g \in safe : disk[g.pkg][g.chk] >= g.val

TableInv == TypeOK /\ RowsOf(db) /\ RowsOf(disk) /\ DiskInv

PRInv ==
  /\ TableInv
  /\ ~damaged => SafeInv
  /\ ~lost => KnownInv /\ AnswersDoNotGoBack /\ GivenInv

\* Committing is always committing everything
LEMMA SyncedIsAll ==
  ASSUME TableInv
  PROVE  Synced = db /\ SyncedIfDirty = db
  BY DEF TableInv, DiskInv, Synced, SyncedIfDirty

\* A request carried out changes nothing, or is rolled back with all that is not
\* committed, or puts one row, which only grows
RolledBack(r) ==
  /\ r.op = "get-pr"
  /\ db' = disk /\ dirty' = TRUE /\ lost' = LostBy(disk)
  /\ AnswerTo(r).val = None
  /\ UNCHANGED <<given, imported>>

RowPut(r) ==
  LET v == AnswerTo(r).val IN
    /\ r.chk \in Checksums
    /\ v \in Nat /\ db[r.pkg][r.chk] <= v
    /\ db' = [db EXCEPT ![r.pkg][r.chk] = v]
    /\ db[r.pkg][r.chk] # v => dirty'
    /\ UNCHANGED lost

LEMMA DispatchPuts ==
  ASSUME TableInv, NEW r \in Calls, Dispatch(r)
  PROVE  /\ read_only => UNCHANGED <<db, dirty, given, imported, lost>>
         /\ ~read_only => RolledBack(r) \/ RowPut(r)
         /\ dirty' \in BOOLEAN /\ (dirty => dirty')
  <1>1. /\ r.pkg \in Packages /\ r.chk \in Checksums \cup {Null}
        /\ r.op = "get-pr" \/ r.op = "import-one"
        /\ r.op = "import-one" => r.chk \in Checksums
    BY CallShape
  <1>2. db[r.pkg] \in Row /\ HasMax(db[r.pkg])
    BY <1>1 DEF TableInv, RowsOf
  <1>3. dirty \in BOOLEAN /\ read_only \in BOOLEAN
    BY DEF TableInv, TypeOK
  <1>4. CASE r.op = "get-pr"
    <2>1. GetPR(r)
      BY <1>4 DEF Dispatch, ImportOne
    <2>2. r.chk \in Checksums => AnswerTo(r).val = get_value(db[r.pkg], r.chk)
      BY <1>4, NullAssumption DEF AnswerTo
    <2>3. /\ get_value(db[r.pkg], r.chk) \in Nat
          /\ r.chk \in Checksums => db[r.pkg][r.chk] <= get_value(db[r.pkg], r.chk)
          /\ Found(db[r.pkg], r.chk) => get_value(db[r.pkg], r.chk) = db[r.pkg][r.chk]
      BY <1>1, <1>2, ValueGrows
    <2>4. dirty' \in BOOLEAN /\ (dirty => dirty')
      BY <1>3, <2>1 DEF GetPR, DirtyAfter, table
    <2>5. read_only => UNCHANGED <<db, dirty, given, imported, lost>>
      BY <2>1 DEF GetPR, table
    <2>6. ~read_only /\ r.chk = Null => RolledBack(r)
      <3>1. ~read_only /\ r.chk = Null => AnswerTo(r).val = None
        BY <1>4 DEF AnswerTo
      <3> QED
        BY <1>4, <2>1, <3>1 DEF GetPR, RolledBack
    <2>7. ~read_only /\ r.chk # Null => RowPut(r)
      <3>1. r.chk # Null => r.chk \in Checksums
        BY <1>1
      <3>2. ~Found(db[r.pkg], r.chk) /\ ~read_only /\ r.chk # Null => dirty'
        BY <2>1 DEF GetPR, DirtyAfter
      <3>3. ~read_only /\ r.chk # Null
            => db' = [db EXCEPT ![r.pkg][r.chk] = get_value(db[r.pkg], r.chk)] /\ lost' = lost
        BY <2>1 DEF GetPR, Put
      <3> QED
        BY <2>2, <2>3, <3>1, <3>2, <3>3 DEF RowPut
    <2> QED
      BY <2>4, <2>5, <2>6, <2>7
  <1>5. CASE r.op = "import-one"
    <2>1. ImportOne(r) /\ (~read_only => AnswerTo(r).val = ImportedValue(db[r.pkg], r))
      BY <1>5 DEF Dispatch, GetPR, AnswerTo
    <2>2. /\ ImportedValue(db[r.pkg], r) \in Nat
          /\ db[r.pkg][r.chk] <= ImportedValue(db[r.pkg], r)
      BY <1>2, <1>5, ImportGrows
    <2>3. dirty' \in BOOLEAN /\ (dirty => dirty')
      <3>1. dirty' = dirty \/ dirty' = TRUE
        BY <2>1 DEF ImportOne, table
      <3> QED
        BY <1>3, <3>1
    <2>4. read_only => UNCHANGED <<db, dirty, given, imported, lost>>
      BY <2>1 DEF ImportOne, table
    <2>5. ~read_only => RowPut(r)
      BY <1>1, <1>5, <2>1, <2>2 DEF ImportOne, Put, RowPut
    <2> QED
      BY <2>3, <2>4, <2>5
  <1> QED
    BY <1>1, <1>4, <1>5

\* What is answered is a value or null, and no step back
LEMMA AnswerType ==
  ASSUME TableInv, NEW r \in Calls
  PROVE  /\ AnswerTo(r) \in Answer
         /\ AnswerTo(r).rw = ~read_only
         /\ r.op = "get-pr" /\ AnswerTo(r).val # None
              => AnswerTo(r).val >= find_max_value(db[r.pkg])
  <1>1. /\ r.pkg \in Packages /\ r.chk \in Checksums \cup {Null}
        /\ r.op = "import-one" => r.chk \in Checksums
    BY CallShape
  <1>2. db[r.pkg] \in Row /\ HasMax(db[r.pkg])
    BY <1>1 DEF TableInv, RowsOf
  <1>3. /\ get_value(db[r.pkg], r.chk) \in Nat
        /\ get_value(db[r.pkg], r.chk) >= find_max_value(db[r.pkg])
    BY <1>1, <1>2, ValueGrows
  <1>4. r.op = "import-one" => ImportedValue(db[r.pkg], r) \in Nat
    BY <1>2, ImportGrows
  <1>5. \/ AnswerTo(r).val = None
        \/ r.op = "get-pr" /\ AnswerTo(r).val = get_value(db[r.pkg], r.chk)
        \/ r.op = "import-one" /\ AnswerTo(r).val = ImportedValue(db[r.pkg], r)
    BY DEF AnswerTo
  <1>6. AnswerTo(r).rw = ~read_only /\ AnswerTo(r) = [val |-> AnswerTo(r).val, rw |-> ~read_only]
    BY DEF AnswerTo
  <1>7. AnswerTo(r).val \in Nat \cup {None}
    BY <1>3, <1>4, <1>5
  <1> QED
    BY <1>3, <1>5, <1>6, <1>7 DEF Answer

\* So the table keeps its shape, and its distance from the file
LEMMA DispatchTable ==
  ASSUME TableInv, NEW r \in Calls, Dispatch(r)
  PROVE  /\ db' \in Table /\ RowsOf(db') /\ DiskInv'
         /\ ~lost' => RowsGrow(db, db')
         /\ ~read_only => AnswerTo(r).val <= find_max_value(db'[r.pkg])
  <1> DEFINE v == AnswerTo(r).val
  <1>1. r.pkg \in Packages
    BY CallShape
  <1>2. /\ db \in Table /\ RowsOf(db) /\ disk \in Table /\ RowsOf(disk)
        /\ read_only \in BOOLEAN
    BY DEF TableInv, TypeOK
  <1>3. UNCHANGED <<disk, read_only, server>> /\ Serving
    BY DEF Dispatch
  <1>4. CASE read_only
    <2>1. UNCHANGED <<db, dirty>>
      BY <1>4, DispatchPuts
    <2>2. RowsGrow(db, db')
      BY <1>2, <2>1, RowsStay
    <2>3. DiskInv'
      BY <1>3, <2>1 DEF TableInv, DiskInv, Serving
    <2> QED
      BY <1>2, <1>4, <2>1, <2>2, <2>3
  <1>5. CASE ~read_only /\ RolledBack(r)
    <2>1. db' = disk /\ dirty' = TRUE /\ lost' = LostBy(disk) /\ v = None
      BY <1>5 DEF RolledBack
    <2>2. ~lost' => RowsGrow(db, db')
      BY <1>2, <2>1, RowsStay DEF LostBy
    <2>3. \A p \in Packages, c \in Checksums : disk'[p][c] <= db'[p][c]
      BY <1>2, <1>3, <2>1, RowsStay DEF RowsGrow
    <2>4. DiskInv'
      BY <1>3, <2>1, <2>3 DEF DiskInv
    <2>5. v <= find_max_value(db'[r.pkg])
      <3>1. find_max_value(disk[r.pkg]) \in Nat \cup {None}
        BY <1>1, <1>2, MaxIsLargest DEF RowsOf
      <3> QED
        BY <2>1, <3>1 DEF None
    <2> QED
      BY <1>2, <2>1, <2>2, <2>4, <2>5
  <1>6. CASE ~read_only /\ RowPut(r)
    <2>1. /\ v \in Nat /\ db[r.pkg][r.chk] <= v /\ r.chk \in Checksums
          /\ db' = [db EXCEPT ![r.pkg][r.chk] = v]
          /\ db[r.pkg][r.chk] # v => dirty'
          /\ dirty => dirty'
      BY <1>6, DispatchPuts DEF RowPut
    <2>2. /\ db' \in Table /\ RowsOf(db') /\ RowsGrow(db, db')
          /\ v <= find_max_value(db'[r.pkg])
      <3>1. db' = PutIn(db, r.pkg, r.chk, v)
        BY <2>1 DEF PutIn
      <3>2. db[r.pkg][r.chk] <= v /\ v \in Nat /\ db \in Table /\ RowsOf(db)
        BY <1>2, <2>1
      <3>3. r.pkg \in Packages /\ r.chk \in Checksums
        BY <1>1, <2>1
      <3> HIDE DEF v
      <3>4. /\ PutIn(db, r.pkg, r.chk, v) \in Table
            /\ RowsOf(PutIn(db, r.pkg, r.chk, v))
            /\ RowsGrow(db, PutIn(db, r.pkg, r.chk, v))
        BY ONLY <3>2, <3>3, PutRow
      <3>5. v <= find_max_value(PutIn(db, r.pkg, r.chk, v)[r.pkg])
        BY ONLY <3>2, <3>3, PutRow
      <3> QED
        BY <3>1, <3>4, <3>5
    <2>3. db' # db => dirty'
      <3>1. db[r.pkg][r.chk] = v => db' = db
        BY <1>1, <1>2, <2>1 DEF Table
      <3> QED
        BY <2>1, <3>1
    <2>4. \A p \in Packages, c \in Checksums : disk'[p][c] <= db'[p][c]
      <3> SUFFICES ASSUME NEW p \in Packages, NEW c \in Checksums
                   PROVE  disk[p][c] <= db'[p][c]
        BY <1>3
      <3>1. disk[p][c] <= db[p][c] /\ db[p][c] <= db'[p][c]
        BY <2>2 DEF TableInv, DiskInv, RowsGrow
      <3>2. disk[p][c] \in Int /\ db[p][c] \in Int /\ db'[p][c] \in Int
        <4>1. disk[p] \in Row /\ db[p] \in Row /\ db'[p] \in Row
          BY <2>2 DEF TableInv, RowsOf
        <4> QED
          BY <4>1 DEF Row, None
      <3> QED
        BY <3>1, <3>2
    <2>5. DiskInv'
      BY <1>3, <1>6, <2>1, <2>3, <2>4 DEF TableInv, DiskInv, Serving
    <2> QED
      BY <2>2, <2>5
  <1> QED
    BY <1>2, <1>4, <1>5, <1>6, DispatchPuts

-----------------------------------------------------------------------------
(* TableInv is inductive, rollbacks, kills and a damaged file included *)

LEMMA EmptyRows ==
  ASSUME db = [p \in Packages |-> [c \in Checksums |-> None]]
  PROVE  /\ db \in Table /\ RowsOf(db)
         /\ \A p \in Packages : find_max_value(db[p]) = None
  <1>1. db \in Table
    BY DEF Table
  <1>2. \A p \in Packages : db[p] \in Row /\ HasMax(db[p])
    BY SetsAssumption DEF Row, HasMax, None
  <1>3. \A p \in Packages : find_max_value(db[p]) = None
    <2> SUFFICES ASSUME NEW p \in Packages
                 PROVE  find_max_value(db[p]) = None
      OBVIOUS
    <2>1. PICK c \in Checksums : db[p][c] = find_max_value(db[p])
      BY <1>2, MaxIsLargest
    <2> QED
      BY <2>1
  <1> QED
    BY <1>1, <1>2, <1>3 DEF RowsOf

LEMMA TableInit == Init => TableInv
  <1> SUFFICES ASSUME Init PROVE TableInv
    OBVIOUS
  <1>1. db \in Table /\ RowsOf(db) /\ disk = db
    BY EmptyRows DEF Init
  <1>2. DiskInv
    <2>1. \A p \in Packages, c \in Checksums : disk[p][c] <= db[p][c]
      BY <1>1, RowsStay DEF RowsGrow
    <2> QED
      BY <1>1, <2>1 DEF DiskInv
  <1>3. req \in [Clients -> Calls]
    BY NoRequestIsCall DEF Init
  <1>4. TypeOK
    <2>1. ans \in [Clients -> Answer]
      BY DEF Init, NoAnswer, Answer
    <2>2. /\ count \in [Clients -> 0..MaxTries]
          /\ calls \in 0..MaxCalls /\ troubles \in 0..MaxTroubles
      BY BoundAssumption DEF Init
    <2>3. /\ floor \in [Clients -> Nat \cup {None}]
          /\ known \in [Packages -> Nat \cup {None}]
      BY DEF Init
    <2> QED
      BY <1>1, <1>3, <2>1, <2>2, <2>3 DEF Init, TypeOK
  <1> QED
    BY <1>1, <1>2, <1>4 DEF TableInv

\* The part of the type invariant that carrying out a request can disturb
LEMMA DispatchTypes ==
  ASSUME TableInv, NEW r \in Calls, Dispatch(r)
  PROVE  /\ dirty' \in BOOLEAN
         /\ given' \subseteq PR
         /\ imported' \subseteq [pkg : Packages, val : Nat]
         /\ lost' \in BOOLEAN
  <1>1. r.pkg \in Packages /\ r.chk \in Checksums \cup {Null}
    BY CallShape
  <1>2. get_value(db[r.pkg], r.chk) \in Nat
    BY <1>1, ValueGrows DEF TableInv, RowsOf
  <1>3. r.op = "import-one" => r.val \in Nat
    BY CallShape
  <1>4. dirty' \in BOOLEAN
    BY DispatchPuts
  <1>5. GetPR(r) \/ ImportOne(r)
    BY DEF Dispatch
  <1>6. lost' \in BOOLEAN
    BY <1>5 DEF GetPR, ImportOne, LostBy, TableInv, TypeOK
  <1>7. given' \subseteq PR
    BY <1>1, <1>2, <1>5 DEF GetPR, ImportOne, TableInv, TypeOK, PR
  <1>8. imported' \subseteq [pkg : Packages, val : Nat]
    BY <1>1, <1>3, <1>5 DEF GetPR, ImportOne, TableInv, TypeOK
  <1> QED
    BY <1>4, <1>6, <1>7, <1>8

\* A call that is over leaves well-typed variables
LEMMA EndsTypes ==
  ASSUME TypeOK, NEW c \in Clients, Ends(c)
  PROVE  /\ pc' \in [Clients -> {"idle", "sent", "answered", "broken"}]
         /\ req' \in [Clients -> Calls]
         /\ ans' \in [Clients -> Answer]
         /\ count' \in [Clients -> 0..MaxTries]
         /\ floor' \in [Clients -> Nat \cup {None}]
  BY NoRequestIsCall, BoundAssumption DEF TypeOK, Ends, NoAnswer, Answer

LEMMA CommittingTypes ==
  ASSUME TypeOK, Committing
  PROVE  safe' \subseteq PR
  BY DEF TypeOK, Committing

\* What a crash can leave in the file lies below the table the server had
LEMMA CrashTable ==
  ASSUME TableInv, Crash
  PROVE  /\ db' = disk' /\ disk' \in Table /\ RowsOf(disk')
         /\ lost' \in BOOLEAN /\ damaged' \in BOOLEAN
         /\ given' \subseteq PR /\ safe' \subseteq PR
         /\ imported' \subseteq [pkg : Packages, val : Nat]
         /\ \/ disk' = disk /\ lost' = LostBy(disk)
               /\ UNCHANGED <<given, imported, safe, damaged>>
            \/ damaged' /\ lost'
  <1> USE DEF TableInv
  <1>1. CASE FileDamaged
    <2>1. PICK gone, written \in SUBSET (Packages \X Checksums) :
            disk' = [p \in Packages |-> [c \in Checksums |->
                       IF <<p, c>> \in gone THEN None
                       ELSE IF <<p, c>> \in written THEN db[p][c] ELSE disk[p][c]]]
      BY <1>1 DEF FileDamaged
    <2>2. ASSUME NEW p \in Packages, NEW c \in Checksums
          PROVE  disk'[p][c] \in Nat \cup {None} /\ disk'[p][c] <= db[p][c]
      <3>1. /\ db[p][c] \in Nat \cup {None} /\ disk[p][c] \in Nat \cup {None}
            /\ disk[p][c] <= db[p][c]
        BY DEF RowsOf, Row, DiskInv
      <3>2. \/ disk'[p][c] = None
            \/ disk'[p][c] = db[p][c]
            \/ disk'[p][c] = disk[p][c]
        BY <2>1
      <3> QED
        BY <3>1, <3>2 DEF None
    <2>3. \A p \in Packages : disk'[p] \in Row
      <3> SUFFICES ASSUME NEW p \in Packages
                   PROVE  disk'[p] \in Row
        OBVIOUS
      <3>1. disk'[p] = [c \in Checksums |-> disk'[p][c]]
        BY <2>1
      <3> QED
        BY <2>2, <3>1 DEF Row
    <2>4. disk' \in Table
      <3>1. disk' = [p \in Packages |-> disk'[p]]
        BY <2>1
      <3> QED
        BY <2>3, <3>1 DEF Table, Row
    <2>5. RowsOf(disk')
      BY <2>2, <2>3, BoundedHasMax DEF RowsOf
    <2> QED
      BY <1>1, <2>4, <2>5 DEF Crash, FileDamaged
  <1>2. CASE ~FileDamaged
    BY <1>2 DEF Crash, TypeOK, LostBy
  <1> QED
    BY <1>1, <1>2

LEMMA TableStep == TableInv /\ [Next]_vars => TableInv'
  <1> SUFFICES ASSUME TableInv, [Next]_vars
               PROVE  TableInv'
    OBVIOUS
  <1> USE DEF TableInv
  <1>0. SyncedIfDirty = db /\ Synced = db
    BY SyncedIsAll
  <1>1. CASE Start
    <2>1. UNCHANGED <<db, dirty, disk>> /\ db = disk
      BY <1>1 DEF Start, table, DiskInv, Serving
    <2> QED
      BY <1>1, <2>1 DEF Start, TypeOK, RowsOf, DiskInv, client, bounds, history
  <1>2. CASE DispatchFails
    <2>1. disk' = db /\ db' = db
      BY <1>0, <1>2 DEF DispatchFails, table
    <2>2. DiskInv'
      BY <2>1, RowsStay DEF DiskInv, TypeOK, RowsGrow
    <2>3. TypeOK'
      BY <1>2, <2>1, CommittingTypes DEF DispatchFails, TypeOK, table, client, bounds
    <2> QED
      BY <2>1, <2>2, <2>3 DEF RowsOf
  <1>3. CASE Terminate
    <2>1. disk' = db /\ db' = db
      BY <1>0, <1>3 DEF Terminate, table
    <2>2. DiskInv'
      BY <2>1, RowsStay DEF DiskInv, TypeOK, RowsGrow
    <2>3. troubles' \in 0..MaxTroubles
      BY <1>3, BoundAssumption DEF Terminate, Trouble, TypeOK
    <2>4. TypeOK'
      BY <1>3, <2>1, <2>3, CommittingTypes DEF Terminate, TypeOK, table, client
    <2> QED
      BY <2>1, <2>2, <2>4 DEF RowsOf
  <1>4. CASE Stop
    <2>1. disk' = db /\ db' = db
      BY <1>0, <1>4 DEF Stop
    <2>2. DiskInv'
      BY <2>1, RowsStay DEF DiskInv, TypeOK, RowsGrow
    <2>3. TypeOK'
      BY <1>4, <2>1, CommittingTypes DEF Stop, ConnectionsBreak, TypeOK, bounds
    <2> QED
      BY <2>1, <2>2, <2>3 DEF RowsOf
  <1>5. CASE Crash
    <2>1. disk' \in Table /\ RowsOf(disk') /\ db' = disk'
      BY <1>5, CrashTable
    <2>2. DiskInv'
      BY <2>1, RowsStay DEF DiskInv, RowsGrow
    <2>3. troubles' \in 0..MaxTroubles
      BY <1>5, BoundAssumption DEF Crash, Trouble, TypeOK
    <2>4. /\ lost' \in BOOLEAN /\ damaged' \in BOOLEAN
          /\ given' \subseteq PR /\ safe' \subseteq PR
          /\ imported' \subseteq [pkg : Packages, val : Nat]
      BY <1>5, CrashTable
    <2>5. TypeOK'
      BY <1>5, <2>1, <2>3, <2>4 DEF Crash, ConnectionsBreak, TypeOK
    <2> QED
      BY <2>1, <2>2, <2>5 DEF RowsOf
  <1>6. ASSUME NEW r \in stray, HandleStray(r)
        PROVE  TableInv'
    <2>1. r \in Calls /\ Dispatch(r)
      BY <1>6 DEF HandleStray, TypeOK
    <2>2. db' \in Table /\ RowsOf(db') /\ DiskInv'
      BY <2>1, DispatchTable
    <2>3. UNCHANGED <<server, read_only, disk, count, floor, req, calls, troubles, known, safe, damaged>>
      BY <2>1 DEF Dispatch, bounds
    <2>4. TypeOK'
      BY <1>6, <2>1, <2>2, <2>3, DispatchTypes DEF HandleStray, TypeOK
    <2> QED
      BY <2>2, <2>3, <2>4 DEF RowsOf
  <1>7. ASSUME NEW c \in Clients, Handle(c)
        PROVE  TableInv'
    <2>1. req[c] \in Calls /\ Dispatch(req[c])
      BY <1>7 DEF Handle, TypeOK
    <2>2. db' \in Table /\ RowsOf(db') /\ DiskInv' /\ AnswerTo(req[c]) \in Answer
      BY <2>1, DispatchTable, AnswerType
    <2>3. UNCHANGED <<server, read_only, disk, count, floor, req, calls, troubles, known, safe, damaged>>
      BY <2>1 DEF Dispatch, bounds
    <2>4. TypeOK'
      BY <1>7, <2>1, <2>2, <2>3, DispatchTypes DEF Handle, TypeOK
    <2> QED
      BY <2>2, <2>3, <2>4 DEF RowsOf
  <1>8. ASSUME NEW c \in Clients, Receive(c)
        PROVE  TableInv'
    <2>1. UNCHANGED <<server, read_only, db, dirty, disk>>
      BY <1>8 DEF Receive, service, table
    <2>2. known' \in [Packages -> Nat \cup {None}]
      <3>1. req[c].pkg \in Packages /\ ans[c].val \in Nat \cup {None}
        BY CallShape DEF TypeOK, Answer
      <3> QED
        BY <1>8, <3>1 DEF Receive, TypeOK
    <2>3. TypeOK'
      BY <1>8, <2>1, <2>2, EndsTypes DEF Receive, TypeOK, bounds
    <2> QED
      BY <2>1, <2>3 DEF RowsOf, DiskInv, Serving
  <1>9. ASSUME NEW c \in Clients, GiveUp(c)
        PROVE  TableInv'
    <2>1. UNCHANGED <<server, read_only, db, dirty, disk>>
      BY <1>9 DEF GiveUp, service, table
    <2>2. TypeOK'
      BY <1>9, <2>1, EndsTypes DEF GiveUp, TypeOK, bounds, history
    <2> QED
      BY <2>1, <2>2 DEF RowsOf, DiskInv, Serving
  <1>10. ASSUME NEW c \in Clients, Refused(c)
         PROVE  TableInv'
    <2>1. UNCHANGED <<server, read_only, db, dirty, disk>>
      BY <1>10 DEF Refused, service, table
    <2>2. TypeOK'
      BY <1>10, <2>1 DEF Refused, NoAnswer, Answer, TypeOK, bounds, history
    <2> QED
      BY <2>1, <2>2 DEF RowsOf, DiskInv, Serving
  <1>11. ASSUME NEW c \in Clients, Retry(c)
         PROVE  TableInv'
    <2>1. UNCHANGED <<server, read_only, db, dirty, disk>>
      BY <1>11 DEF Retry, service, table
    <2>2. TypeOK'
      BY <1>11, <2>1, BoundAssumption DEF Retry, Counted, TypeOK, bounds, history
    <2> QED
      BY <2>1, <2>2 DEF RowsOf, DiskInv, Serving
  <1>12. ASSUME NEW c \in Clients, Break(c)
         PROVE  TableInv'
    <2>1. UNCHANGED <<server, read_only, db, dirty, disk>>
      BY <1>12 DEF Break, service, table
    <2>2. stray' \subseteq Calls
      BY <1>12 DEF Break, TypeOK
    <2>3. TypeOK'
      BY <1>12, <2>1, <2>2, BoundAssumption DEF Break, Trouble, NoAnswer, Answer, TypeOK, history
    <2> QED
      BY <2>1, <2>3 DEF RowsOf, DiskInv, Serving
  <1>13. ASSUME NEW c \in Clients, NEW r \in Calls, Call(c, r)
         PROVE  TableInv'
    <2>1. UNCHANGED <<server, read_only, db, dirty, disk>>
      BY <1>13 DEF Call, service, table
    <2>2. known[r.pkg] \in Nat \cup {None}
      BY CallShape DEF TypeOK
    <2>3. TypeOK'
      BY <1>13, <2>1, <2>2, BoundAssumption DEF Call, TypeOK, history
    <2> QED
      BY <2>1, <2>3 DEF RowsOf, DiskInv, Serving
  <1>14. CASE UNCHANGED vars
    BY <1>14 DEF vars, table, client, bounds, history, TypeOK, RowsOf, DiskInv, Serving
  <1> QED
    BY <1>1, <1>2, <1>3, <1>4, <1>5, <1>6, <1>7, <1>8, <1>9, <1>10, <1>11, <1>12,
       <1>13, <1>14 DEF Next, Progress

-----------------------------------------------------------------------------
(* The history, while nothing is thrown away *)

\* Without a request carried out the table stays, as far as it matters here
LEMMA RowsUnchanged ==
  ASSUME TableInv, [Next]_vars, ~lost', ~\E r \in Calls : Dispatch(r)
  PROVE  db' = db
  <1>1. stray \subseteq Calls /\ \A c \in Clients : req[c] \in Calls
    BY DEF TableInv, TypeOK
  <1>2. /\ ~\E r \in stray : HandleStray(r)
        /\ ~\E c \in Clients : Handle(c)
    BY <1>1 DEF HandleStray, Handle
  <1>3. Stop => db' = db
    BY SyncedIsAll DEF Stop
  <1>4. Crash => db' = db
    BY CrashTable DEF LostBy
  <1>5. Start \/ DispatchFails \/ Terminate => db' = db
    BY DEF Start, DispatchFails, Terminate, table
  <1>6. \A c \in Clients : Receive(c) \/ Refused(c) \/ Retry(c) \/ GiveUp(c) \/ Break(c)
                           \/ (\E r \in Calls : Call(c, r)) => db' = db
    BY DEF Receive, Refused, Retry, GiveUp, Break, Call, service, table
  <1>7. UNCHANGED vars => db' = db
    BY DEF vars, table
  <1> QED
    BY <1>2, <1>3, <1>4, <1>5, <1>6, <1>7 DEF Next, Progress

\* What the server sees only grows, until something is thrown away
LEMMA RowsGrowStep ==
  ASSUME TableInv, [Next]_vars, ~lost'
  PROVE  RowsGrow(db, db')
  <1>1. RowsGrow(db, db)
    BY RowsStay DEF TableInv, TypeOK
  <1>2. \A r \in Calls : Dispatch(r) => RowsGrow(db, db')
    BY DispatchTable
  <1> QED
    BY <1>1, <1>2, RowsUnchanged

\* A row's value is a number, or none
LEMMA RowValue ==
  ASSUME NEW d \in Table, RowsOf(d), NEW p \in Packages
  PROVE  /\ find_max_value(d[p]) \in Nat \cup {None}
         /\ \A c \in Checksums : d[p][c] \in Nat \cup {None}
         /\ \A c \in Checksums : d[p][c] <= find_max_value(d[p])
  BY MaxIsLargest DEF RowsOf, Row

\* The steps that carry nothing out leave the records as they are
LEMMA GivenChanges ==
  ASSUME TableInv, [Next]_vars, ~lost'
  PROVE  (\E r \in Calls : Dispatch(r)) \/ UNCHANGED <<given, imported>>
  <1>1. stray \subseteq Calls /\ \A c \in Clients : req[c] \in Calls
    BY DEF TableInv, TypeOK
  <1>2. (\E r \in stray : HandleStray(r)) \/ (\E c \in Clients : Handle(c))
        => \E r \in Calls : Dispatch(r)
    BY <1>1 DEF HandleStray, Handle
  <1>3. Start \/ DispatchFails \/ Terminate \/ Stop => UNCHANGED <<given, imported>>
    BY DEF Start, DispatchFails, Terminate, Stop, history
  <1>4. Crash => UNCHANGED <<given, imported>>
    BY CrashTable
  <1>5. \A c \in Clients : Receive(c) \/ Refused(c) \/ Retry(c) \/ GiveUp(c) \/ Break(c)
                           \/ (\E r \in Calls : Call(c, r))
        => UNCHANGED <<given, imported>>
    BY DEF Receive, Refused, Retry, GiveUp, Break, Call, service, history
  <1>6. UNCHANGED vars => UNCHANGED <<given, imported>>
    BY DEF vars, history
  <1> QED
    BY <1>2, <1>3, <1>4, <1>5, <1>6 DEF Next, Progress

\* Carrying out a request keeps the records of what was handed out
LEMMA GivenDispatch ==
  ASSUME TableInv, GivenInv, ~lost', NEW r \in Calls, Dispatch(r)
  PROVE  GivenInv'
  <1> DEFINE v == AnswerTo(r).val
  <1> DEFINE q == r.pkg
  <1> DEFINE k == r.chk
  <1>1. q \in Packages /\ (r.op = "get-pr" \/ r.op = "import-one")
    BY CallShape
  <1>2. /\ db \in Table /\ RowsOf(db)
        /\ \A g \in given : g.pkg \in Packages /\ g.chk \in Checksums /\ g.val \in Nat
        /\ given \subseteq PR
    BY DEF TableInv, TypeOK, PR
  <1>4. CASE UNCHANGED <<db, given, imported>>
    BY <1>4 DEF GivenInv, RowOrigin, OnRecord, Distinct
  <1>5. CASE ~read_only /\ RowPut(r)
    <2>1. /\ v \in Nat /\ db[q][k] <= v /\ k \in Checksums
          /\ db' = PutIn(db, q, k, v)
      BY <1>5 DEF PutIn, RowPut
    <2>2. /\ db'[q][k] = v
          /\ \A p \in Packages, c \in Checksums : p # q \/ c # k => db'[p][c] = db[p][c]
          /\ RowsGrow(db, db') /\ db' \in Table /\ RowsOf(db')
      <3> HIDE DEF v
      <3> QED
        BY ONLY <1>1, <1>2, <2>1, PutRow
    <2>3. /\ db[q] \in Row /\ HasMax(db[q])
          /\ \A p \in Packages, c \in Checksums :
               db[p][c] \in Nat \cup {None} /\ db'[p][c] \in Nat \cup {None}
      BY <1>1, <1>2, <2>1, <2>2, RowValue DEF RowsOf
    <2>4. \A g \in given : db[g.pkg][g.chk] >= g.val
      BY DEF GivenInv, OnRecord
    <2>5. CASE r.op = "get-pr"
      <3> DEFINE new == [pkg |-> q, chk |-> k, val |-> v]
      <3>0. k # Null
        BY <2>1, NullAssumption
      <3>1. v = get_value(db[q], k)
        BY <2>5, <3>0 DEF AnswerTo
      <3>2. given' = given \cup {new} /\ imported' = imported
        BY <1>5, <2>5, <3>0, <3>1 DEF Dispatch, GetPR, ImportOne
      <3>3. /\ Found(db[q], k) => v = db[q][k]
            /\ ~Found(db[q], k) => \A c \in Checksums : db[q][c] < v
        BY <2>1, <2>3, <3>1, ValueGrows
      <3>4. v # None
        BY <2>1 DEF None
      <3> HIDE DEF v
      <3>5. RowOrigin'
        <4> SUFFICES ASSUME NEW p \in Packages, NEW c \in Checksums, db'[p][c] # None
                     PROVE  \/ [pkg |-> p, chk |-> c, val |-> db'[p][c]] \in given'
                            \/ [pkg |-> p, val |-> db'[p][c]] \in imported'
          BY DEF RowOrigin
        <4>1. CASE p = q /\ c = k
          BY <2>2, <3>2, <4>1
        <4>2. CASE ~(p = q /\ c = k)
          BY <2>2, <3>2, <4>2 DEF GivenInv, RowOrigin
        <4> QED
          BY <4>1, <4>2
      <3>7. OnRecord'
        <4> SUFFICES ASSUME NEW g \in given'
                     PROVE  db'[g.pkg][g.chk] >= g.val
          BY DEF OnRecord
        <4>1. CASE g = new
          BY <2>1, <2>2, <4>1
        <4>2. CASE g \in given
          <5>1. /\ db[g.pkg][g.chk] >= g.val /\ db[g.pkg][g.chk] <= db'[g.pkg][g.chk]
                /\ g.val \in Nat
                /\ db[g.pkg][g.chk] \in Nat \cup {None} /\ db'[g.pkg][g.chk] \in Nat \cup {None}
            BY <1>2, <2>2, <2>3, <2>4, <4>2 DEF RowsGrow
          <5> QED
            BY <5>1 DEF None
        <4> QED
          BY <3>2, <4>1, <4>2
      <3>8. \A h \in given : h.pkg = q /\ h.val = v /\ h.chk # k
                             => [pkg |-> q, val |-> v] \in imported
        <4> SUFFICES ASSUME NEW h \in given, h.pkg = q, h.val = v, h.chk # k
                     PROVE  [pkg |-> q, val |-> v] \in imported
          OBVIOUS
        <4>1. CASE Found(db[q], k)
          <5>1. v = db[q][k]
            BY <3>3, <4>1
          <5>2. \/ [pkg |-> q, chk |-> k, val |-> v] \in given
                \/ [pkg |-> q, val |-> v] \in imported
            BY <1>1, <2>1, <3>4, <5>1 DEF GivenInv, RowOrigin
          <5>3. CASE new \in given
            <6>1. new.pkg = h.pkg /\ new.val = h.val /\ new.chk # h.chk
              OBVIOUS
            <6>2. [pkg |-> new.pkg, val |-> new.val] \in imported
              BY <5>3, <6>1 DEF GivenInv, Distinct
            <6> QED
              BY <6>2
          <5> QED
            BY <5>2, <5>3
        <4>2. CASE ~Found(db[q], k)
          <5>1. db[q][h.chk] < v /\ db[q][h.chk] >= v /\ db[q][h.chk] \in Nat \cup {None}
            BY <1>1, <1>2, <2>3, <2>4, <3>3, <4>2
          <5> QED
            BY <2>1, <5>1 DEF None
        <4> QED
          BY <4>1, <4>2
      <3>9. Distinct'
        <4> SUFFICES ASSUME NEW g \in given', NEW h \in given',
                            g.pkg = h.pkg, g.val = h.val, g.chk # h.chk
                     PROVE  [pkg |-> g.pkg, val |-> g.val] \in imported'
          BY DEF Distinct
        <4>1. CASE g \in given /\ h \in given
          BY <3>2, <4>1 DEF GivenInv, Distinct
        <4>2. CASE g = new /\ h \in given
          BY <3>2, <3>8, <4>2
        <4>3. CASE g \in given /\ h = new
          BY <3>2, <3>8, <4>3
        <4>4. CASE g = new /\ h = new
          BY <4>4
        <4> QED
          BY <3>2, <4>1, <4>2, <4>3, <4>4
      <3> QED
        BY <3>5, <3>7, <3>9 DEF GivenInv
    <2>6. CASE r.op = "import-one"
      <3>1. v = ImportedValue(db[q], r)
        BY <1>5, <2>6 DEF AnswerTo
      <3>2. /\ given' = given
            /\ imported' = imported \cup {[pkg |-> q, val |-> r.val]}
        BY <1>5, <2>6 DEF Dispatch, GetPR, ImportOne
      <3>3. v = r.val \/ v = db[q][k]
        BY <2>3, <2>6, <3>1, ImportGrows
      <3>4. v # None
        BY <2>1 DEF None
      <3> HIDE DEF v
      <3>5. RowOrigin'
        <4> SUFFICES ASSUME NEW p \in Packages, NEW c \in Checksums, db'[p][c] # None
                     PROVE  \/ [pkg |-> p, chk |-> c, val |-> db'[p][c]] \in given'
                            \/ [pkg |-> p, val |-> db'[p][c]] \in imported'
          BY DEF RowOrigin
        <4>1. CASE p = q /\ c = k /\ v = r.val
          BY <2>2, <3>2, <4>1
        <4>2. CASE p = q /\ c = k /\ v = db[q][k]
          BY <2>2, <3>2, <3>4, <4>2 DEF GivenInv, RowOrigin
        <4>3. CASE ~(p = q /\ c = k)
          BY <2>2, <3>2, <4>3 DEF GivenInv, RowOrigin
        <4> QED
          BY <3>3, <4>1, <4>2, <4>3
      <3>7. OnRecord'
        <4> SUFFICES ASSUME NEW g \in given
                     PROVE  db'[g.pkg][g.chk] >= g.val
          BY <3>2 DEF OnRecord
        <4>1. /\ db[g.pkg][g.chk] >= g.val /\ db[g.pkg][g.chk] <= db'[g.pkg][g.chk]
              /\ g.val \in Nat
              /\ db[g.pkg][g.chk] \in Nat \cup {None} /\ db'[g.pkg][g.chk] \in Nat \cup {None}
          BY <1>2, <2>2, <2>3, <2>4 DEF RowsGrow
        <4> QED
          BY <4>1 DEF None
      <3>8. Distinct'
        BY <3>2 DEF GivenInv, Distinct
      <3> QED
        BY <3>5, <3>7, <3>8 DEF GivenInv
    <2> QED
      BY <1>1, <2>5, <2>6
  <1>6. CASE ~read_only /\ RolledBack(r)
    <2>1. db' = disk /\ lost' = LostBy(disk) /\ UNCHANGED <<given, imported>>
      BY <1>6 DEF RolledBack
    <2> QED
      BY <1>4, <2>1 DEF LostBy
  <1> QED
    BY <1>4, <1>5, <1>6, DispatchPuts

\* What clients know stays below the table, and answers above what they knew
LEMMA KnownStep ==
  ASSUME TableInv, KnownInv, AnswersDoNotGoBack, [Next]_vars, ~lost, ~lost'
  PROVE  KnownInv' /\ AnswersDoNotGoBack'
  <1>1. RowsGrow(db, db') /\ TableInv'
    BY RowsGrowStep, TableStep
  <1> DEFINE top(d, p) == find_max_value(d[p])
  <1>2. /\ \A p \in Packages : top(db, p) \in Nat \cup {None} /\ top(db', p) \in Nat \cup {None}
        /\ \A p \in Packages : top(db, p) <= top(db', p)
    BY <1>1, RowValue DEF TableInv, TypeOK, RowsGrow
  <1>3. /\ \A p \in Packages : known[p] <= top(db, p) /\ known[p] \in Nat \cup {None}
        /\ \A c \in Clients : floor[c] <= top(db, req[c].pkg) /\ floor[c] \in Nat \cup {None}
        /\ \A c \in Clients : req[c] \in Calls /\ req[c].pkg \in Packages
                               /\ ans[c].val \in Nat \cup {None}
    BY CallShape DEF TableInv, TypeOK, KnownInv, Answer
  <1>4. /\ NoRequest.pkg \in Packages /\ NoRequest \in Calls
        /\ \A p \in Packages : None <= top(db', p)
    BY <1>2, NoRequestIsCall, CallShape DEF None
  <1>5. \A r \in Calls, c \in Clients : pc[c] = "sent" /\ r = req[c] /\ Dispatch(r) /\ r.op = "get-pr"
        => /\ ~read_only => AnswerTo(r).val <= top(db', r.pkg)
           /\ AnswerTo(r).val # None => AnswerTo(r).val >= floor[c]
    <2> SUFFICES ASSUME NEW r \in Calls, NEW c \in Clients, r = req[c], Dispatch(r), r.op = "get-pr"
                 PROVE  /\ ~read_only => AnswerTo(r).val <= top(db', r.pkg)
                        /\ AnswerTo(r).val # None => AnswerTo(r).val >= floor[c]
      OBVIOUS
    <2>1. ~read_only => AnswerTo(r).val <= top(db', r.pkg)
      BY DispatchTable
    <2>2. /\ AnswerTo(r).val # None => AnswerTo(r).val >= top(db, r.pkg)
          /\ AnswerTo(r).val \in Nat \cup {None}
      BY AnswerType DEF Answer
    <2> QED
      BY <1>2, <1>3, <2>1, <2>2 DEF None
  <1> HIDE DEF top
  <1>6. CASE \E c \in Clients : Handle(c)
    <2>1. PICK c \in Clients : Handle(c)
      BY <1>6
    <2>2. /\ UNCHANGED <<known, floor, req, read_only>> /\ Dispatch(req[c]) /\ pc[c] = "sent"
          /\ ans' = [ans EXCEPT ![c] = AnswerTo(req[c])]
          /\ pc' = [pc EXCEPT ![c] = "answered"]
      BY <2>1 DEF Handle, Dispatch
    <2>3. AnswerTo(req[c]).rw = ~read_only
      BY DEF AnswerTo
    <2>4. ans'[c] = AnswerTo(req[c]) /\ \A d \in Clients : d # c => ans'[d] = ans[d] /\ pc'[d] = pc[d]
      BY <2>2 DEF TableInv, TypeOK
    <2>5. /\ \A p \in Packages : known'[p] <= top(db', p)
          /\ \A d \in Clients : floor'[d] <= top(db', req'[d].pkg)
      BY <1>2, <1>3, <2>2 DEF None
    <2>6. \A d \in Clients : pc'[d] = "answered" /\ req'[d].op = "get-pr" /\ ans'[d].rw
                            => ans'[d].val <= top(db', req'[d].pkg)
      <3> SUFFICES ASSUME NEW d \in Clients, pc'[d] = "answered", req'[d].op = "get-pr", ans'[d].rw
                   PROVE  ans'[d].val <= top(db', req'[d].pkg)
        OBVIOUS
      <3>1. CASE d = c
        BY <1>3, <1>5, <2>2, <2>3, <2>4, <3>1
      <3>2. CASE d # c
        <4>1. ans[d].val <= top(db, req[d].pkg)
          BY <2>2, <2>4, <3>2 DEF KnownInv, top
        <4> QED
          BY <1>2, <1>3, <2>2, <2>4, <3>2, <4>1 DEF None
      <3> QED
        BY <3>1, <3>2
    <2>7. \A d \in Clients : NoStepBack(d)'
      BY <1>3, <1>5, <2>2, <2>4 DEF AnswersDoNotGoBack, NoStepBack
    <2> QED
      BY <2>5, <2>6, <2>7 DEF KnownInv, AnswersDoNotGoBack, top
  <1>7. CASE ~\E c \in Clients : Handle(c)
    <2>1. \A d \in Clients : pc'[d] = "answered" =>
            pc[d] = "answered" /\ ans'[d] = ans[d] /\ floor'[d] = floor[d] /\ req'[d] = req[d]
      <3> USE DEF TableInv, TypeOK
      <3>1. Start \/ DispatchFails \/ Terminate \/ UNCHANGED vars => UNCHANGED client
        BY DEF Start, DispatchFails, Terminate, vars
      <3>2. Stop \/ Crash => /\ UNCHANGED <<req, ans, floor>>
                            /\ \A d \in Clients : pc'[d] = "answered" => pc[d] = "answered"
        BY DEF Stop, Crash, ConnectionsBreak
      <3>3. (\E r \in stray : HandleStray(r)) => UNCHANGED <<pc, req, ans, floor>>
        BY DEF HandleStray, Dispatch
      <3>4. ASSUME NEW c \in Clients, Receive(c) \/ GiveUp(c)
            PROVE  \A d \in Clients : pc'[d] = "answered" =>
                     pc[d] = "answered" /\ ans'[d] = ans[d] /\ floor'[d] = floor[d] /\ req'[d] = req[d]
        BY <3>4 DEF Receive, GiveUp, Ends
      <3>5. ASSUME NEW c \in Clients, Refused(c) \/ Break(c)
            PROVE  \A d \in Clients : pc'[d] = "answered" =>
                     pc[d] = "answered" /\ ans'[d] = ans[d] /\ floor'[d] = floor[d] /\ req'[d] = req[d]
        BY <3>5 DEF Refused, Break
      <3>6. ASSUME NEW c \in Clients, Retry(c) \/ \E r \in Calls : Call(c, r)
            PROVE  \A d \in Clients : pc'[d] = "answered" =>
                     pc[d] = "answered" /\ ans'[d] = ans[d] /\ floor'[d] = floor[d] /\ req'[d] = req[d]
        BY <3>6 DEF Retry, Call
      <3> QED
        BY <1>7, <3>1, <3>2, <3>3, <3>4, <3>5, <3>6 DEF Next, Progress, client
    <2>2. \A p \in Packages : known'[p] <= top(db', p)
      <3>1. CASE known' = known
        BY <1>2, <1>3, <3>1 DEF None
      <3>2. CASE known' # known
        <4>1. PICK c \in Clients : Receive(c)
          BY <1>7, <3>2 DEF Next, Progress, Start, DispatchFails, Terminate, Stop, Crash, HandleStray,
             Dispatch, Refused, Retry, GiveUp, Break, Call, vars, history
        <4>2. /\ pc[c] = "answered" /\ req[c].op = "get-pr" /\ ans[c].rw
              /\ known' = [known EXCEPT ![req[c].pkg] = ans[c].val]
          BY <3>2, <4>1 DEF Receive
        <4>3. ans[c].val <= top(db, req[c].pkg)
          BY <4>2 DEF KnownInv, top
        <4>4. \A p \in Packages : known'[p] = known[p] \/ (p = req[c].pkg /\ known'[p] = ans[c].val)
          BY <4>2 DEF TableInv, TypeOK
        <4> QED
          BY <1>2, <1>3, <4>3, <4>4 DEF None
      <3> QED
        BY <3>1, <3>2
    <2>3. \A d \in Clients : floor'[d] <= top(db', req'[d].pkg)
      <3> SUFFICES ASSUME NEW d \in Clients PROVE floor'[d] <= top(db', req'[d].pkg)
        OBVIOUS
      <3>1. CASE floor'[d] = floor[d] /\ req'[d] = req[d]
        BY <1>2, <1>3, <3>1 DEF None
      <3>2. CASE ~(floor'[d] = floor[d] /\ req'[d] = req[d])
        <4>1. \/ Receive(d) \/ GiveUp(d)
              \/ \E r \in Calls : Call(d, r)
          <5> USE DEF TableInv, TypeOK
          <5>1. \A c \in Clients : Receive(c) \/ GiveUp(c) => c = d
            BY <3>2 DEF Receive, GiveUp, Ends
          <5>2. \A c \in Clients, r \in Calls : Call(c, r) => c = d
            BY <3>2 DEF Call
          <5>3. ~\E c \in Clients : Refused(c) \/ Break(c) \/ Retry(c)
            BY <3>2 DEF Refused, Break, Retry
          <5>4. ~(Start \/ DispatchFails \/ Terminate \/ Stop \/ Crash \/ UNCHANGED vars
                  \/ \E r \in stray : HandleStray(r))
            BY <3>2 DEF Start, DispatchFails, Terminate, Stop, Crash, HandleStray, Dispatch, vars, client
          <5> QED
            BY <1>7, <5>1, <5>2, <5>3, <5>4 DEF Next, Progress
        <4>2. CASE Receive(d) \/ GiveUp(d)
          <5>1. floor'[d] = None /\ req'[d] = NoRequest
            BY <4>2 DEF Receive, GiveUp, Ends, TableInv, TypeOK
          <5> QED
            BY <1>4, <5>1
        <4>3. CASE \E r \in Calls : Call(d, r)
          <5>1. PICK r \in Calls : Call(d, r)
            BY <4>3
          <5>2. floor'[d] = known[r.pkg] /\ req'[d] = r /\ r.pkg \in Packages
            BY <5>1, CallShape DEF Call, TableInv, TypeOK
          <5> QED
            BY <1>2, <1>3, <5>2 DEF None
        <4> QED
          BY <4>1, <4>2, <4>3
      <3> QED
        BY <3>1, <3>2
    <2>4. \A d \in Clients : pc'[d] = "answered" /\ req'[d].op = "get-pr" /\ ans'[d].rw
                            => ans'[d].val <= top(db', req'[d].pkg)
      <3> SUFFICES ASSUME NEW d \in Clients, pc'[d] = "answered", req'[d].op = "get-pr", ans'[d].rw
                   PROVE  ans'[d].val <= top(db', req'[d].pkg)
        OBVIOUS
      <3>1. ans[d].val <= top(db, req[d].pkg)
        BY <2>1 DEF KnownInv, top
      <3> QED
        BY <1>2, <1>3, <2>1, <3>1 DEF None
    <2>6. \A d \in Clients : NoStepBack(d)'
      BY <2>1 DEF AnswersDoNotGoBack, NoStepBack
    <2> QED
      BY <2>2, <2>3, <2>4, <2>6 DEF KnownInv, AnswersDoNotGoBack, top
  <1> QED
    BY <1>6, <1>7

LEMMA GivenStep ==
  ASSUME TableInv, GivenInv, [Next]_vars, ~lost'
  PROVE  GivenInv'
  <1>1. CASE \E r \in Calls : Dispatch(r)
    BY <1>1, GivenDispatch
  <1>2. CASE ~\E r \in Calls : Dispatch(r)
    <2>1. UNCHANGED <<db, given, imported>>
      BY <1>2, RowsUnchanged, GivenChanges
    <2> QED
      BY <2>1 DEF GivenInv, RowOrigin, OnRecord, Distinct
  <1> QED
    BY <1>1, <1>2

\* What is safe stays in the file
LEMMA SafeStep ==
  ASSUME TableInv, TableInv', SafeInv, [Next]_vars, ~damaged'
  PROVE  SafeInv'
  <1>1. /\ \A g \in safe \cup given : g.pkg \in Packages /\ g.chk \in Checksums /\ g.val \in Nat
        /\ \A p \in Packages, c \in Checksums :
             /\ disk[p][c] \in Int /\ db[p][c] \in Int /\ disk[p][c] <= db[p][c]
    <2>1. \A p \in Packages : disk[p] \in Row /\ db[p] \in Row
      BY DEF TableInv, RowsOf
    <2> QED
      BY <2>1 DEF TableInv, TypeOK, PR, DiskInv, Row, None
  <1>2. CASE DispatchFails \/ Terminate \/ Stop
    <2>1. Committing /\ disk' = db
      BY <1>2, SyncedIsAll DEF DispatchFails, Terminate, Stop
    <2> SUFFICES ASSUME NEW g \in safe'
                 PROVE  db[g.pkg][g.chk] >= g.val
      BY <2>1 DEF SafeInv
    <2>2. g \in safe => disk[g.pkg][g.chk] >= g.val
      BY DEF SafeInv
    <2> QED
      BY <1>1, <2>1, <2>2 DEF Committing
  <1>3. CASE UNCHANGED <<disk, safe>>
    BY <1>3 DEF SafeInv
  <1>4. Crash => UNCHANGED <<disk, safe>>
    BY CrashTable
  <1>5. Start \/ (\E r \in stray : HandleStray(r)) \/ UNCHANGED vars => UNCHANGED <<disk, safe>>
    BY DEF Start, HandleStray, Dispatch, vars, history
  <1>6. \A c \in Clients : Progress(c) \/ Break(c) \/ (\E r \in Calls : Call(c, r))
                           => UNCHANGED <<disk, safe>>
    BY DEF Progress, Handle, Dispatch, Receive, Refused, Retry, GiveUp, Break, Call, service, history
  <1> QED
    BY <1>2, <1>3, <1>4, <1>5, <1>6 DEF Next

-----------------------------------------------------------------------------
LEMMA InvInit == Init => PRInv
  <1> SUFFICES ASSUME Init PROVE PRInv
    OBVIOUS
  <1>1. TableInv
    BY TableInit
  <1>2. \A p \in Packages : find_max_value(db[p]) = None
    BY EmptyRows DEF Init
  <1>3. KnownInv
    BY <1>2, NoRequestIsCall, CallShape DEF Init, KnownInv, None
  <1>4. AnswersDoNotGoBack /\ SafeInv
    BY DEF Init, AnswersDoNotGoBack, NoStepBack, SafeInv
  <1>5. GivenInv
    BY DEF Init, GivenInv, RowOrigin, OnRecord, Distinct
  <1> QED
    BY <1>1, <1>3, <1>4, <1>5 DEF PRInv

LEMMA InvStep == PRInv /\ [Next]_vars => PRInv'
  <1> SUFFICES ASSUME PRInv, [Next]_vars PROVE PRInv'
    OBVIOUS
  <1>1. TableInv /\ TableInv'
    BY TableStep DEF PRInv
  <1>2. (~lost' => ~lost) /\ (~damaged' => ~damaged)
    <2> USE DEF TableInv, TypeOK
    <2>1. Crash => (~lost' => ~lost) /\ (~damaged' => ~damaged)
      BY <1>1, CrashTable DEF LostBy
    <2>2. \A r : Dispatch(r) => (~lost' => ~lost) /\ (~damaged' => ~damaged)
      <3>1. \A r : GetPR(r) \/ ImportOne(r) => lost' = lost \/ lost' = (lost \/ disk # db)
        BY DEF GetPR, ImportOne, LostBy
      <3>2. \A r : Dispatch(r) => (GetPR(r) \/ ImportOne(r)) /\ damaged' = damaged
        BY DEF Dispatch
      <3>3. lost \in BOOLEAN
        BY <1>1
      <3> QED
        BY <3>1, <3>2, <3>3
    <2>3. Start \/ DispatchFails \/ Terminate \/ Stop \/ UNCHANGED vars => UNCHANGED <<lost, damaged>>
      BY DEF Start, DispatchFails, Terminate, Stop, vars, history
    <2>4. \A c \in Clients : Receive(c) \/ Refused(c) \/ Retry(c) \/ GiveUp(c) \/ Break(c)
                             \/ (\E r \in Calls : Call(c, r)) => UNCHANGED <<lost, damaged>>
      BY DEF Receive, Refused, Retry, GiveUp, Break, Call, history
    <2> QED
      BY <1>1, <2>1, <2>2, <2>3, <2>4 DEF Next, Progress, Handle, HandleStray
  <1> QED
    BY <1>1, <1>2, KnownStep, GivenStep, SafeStep DEF PRInv

(* What all of the theorems below follow from: the table is in order in      *)
(* every state; as long as no row has been thrown away, what clients have    *)
(* been told is in it; and what is safe is in the file until that is         *)
(* damaged.                                                                  *)
THEOREM Invariant == Spec => []PRInv
  BY InvInit, InvStep, PTL DEF Spec

(* For any clients, packages and checksums, any number of calls, broken      *)
(* connections, rollbacks, stops and crashes, every variable keeps its type. *)
THEOREM TypeCorrect == Spec => []TypeOK
  <1>1. PRInv => TypeOK
    BY DEF PRInv, TableInv
  <1> QED
    BY <1>1, Invariant, PTL

(* Until a row is thrown away no client is given a PR below one known when   *)
(* it asked.                                                                 *)
THEOREM AnswersNeverGoBack == Spec => []AnswersDoNotGoBack
  <1>1. PRInv => AnswersDoNotGoBack
    BY DEF PRInv, AnswersDoNotGoBack
  <1> QED
    BY <1>1, Invariant, PTL

(* Until a row is thrown away two checksums share a PR only when an import   *)
(* brought it.                                                               *)
THEOREM OneChecksumHasPR == Spec => []OneChecksumPerPR
  <1>1. PRInv => OneChecksumPerPR
    BY DEF PRInv, GivenInv, Distinct, OneChecksumPerPR
  <1> QED
    BY <1>1, Invariant, PTL

(* Until a row is thrown away every PR handed out stays on record, at that   *)
(* value or above.                                                           *)
THEOREM GivenStaysOnRecord == Spec => []GivenIsKept
  <1>1. PRInv => GivenIsKept
    BY DEF PRInv, GivenInv, OnRecord, GivenIsKept
  <1> QED
    BY <1>1, Invariant, PTL

(* What was on record at a commit stays on record through any rollback and   *)
(* any kill that leaves the file whole.                                      *)
THEOREM CommittedStaysOnRecord == Spec => []CommittedIsKept
  <1>1. PRInv => CommittedIsKept
    <2> SUFFICES ASSUME TableInv, SafeInv, NEW g \in safe
                 PROVE  db[g.pkg][g.chk] >= g.val
      BY DEF PRInv, CommittedIsKept
    <2>1. g.pkg \in Packages /\ g.chk \in Checksums /\ g.val \in Nat
      BY DEF TableInv, TypeOK, PR
    <2>2. disk[g.pkg] \in Row /\ db[g.pkg] \in Row
      BY <2>1 DEF TableInv, RowsOf
    <2>3. disk[g.pkg][g.chk] >= g.val /\ disk[g.pkg][g.chk] <= db[g.pkg][g.chk]
      BY <2>1 DEF SafeInv, TableInv, DiskInv
    <2> QED
      BY <2>1, <2>2, <2>3 DEF Row, None
  <1> QED
    BY <1>1, Invariant, PTL

=============================================================================
