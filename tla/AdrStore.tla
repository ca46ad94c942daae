------------------------------ MODULE AdrStore ------------------------------
(***************************************************************************)
(* How decisions are recorded: a session's create_adr tool calls           *)
(* (adrengine.HandleCreateADR) and, when it completes, the "[ADR]" markers *)
(* in its metadata (adrengine.ExtractFromSession) both end in adr_repo's   *)
(* CreateWithNextSequence, a serializable transaction that locks the       *)
(* project's row and inserts MAX(sequence) + 1.  In PostgreSQL the         *)
(* snapshot of such a transaction is taken when the lock is asked for, not *)
(* when it is granted, so a call that waited counts on an old maximum and  *)
(* is refused by uq_adrs_project_sequence.                                 *)
(***************************************************************************)
EXTENDS Naturals, FiniteSets, Sequences

CONSTANTS
  Projects, Sessions,
  ProjectOf,  \* ProjectOf[s], the project of session s
  ToolCalls,  \* ToolCalls[s], the decisions s's agent records by tool call
  Texts,      \* Texts[s], the texts in s's metadata, each a sequence of markers
  Decisions,  \* what tool calls and markers can say
  PageSize    \* how many decisions a client asks for at a time

ASSUME AdrAssumption ==
  /\ ProjectOf \in [Sessions -> Projects]
  /\ ToolCalls \in [Sessions -> Seq(Decisions)]
  /\ Texts \in [Sessions -> SUBSET Seq(Decisions)]
  /\ PageSize \in Nat \ {0}

VARIABLES
  adrs,    \* the committed rows
  tx,      \* per creator, its call of CreateWithNextSequence
  lock,    \* per project, the creator that holds its row's lock
  called,  \* per session, the tool calls made so far
  scan,    \* per session, how far the extraction is
  told,    \* per creator, the rows whose numbers it was told
  listing  \* per project, a client's paging through its decisions

vars == <<adrs, tx, lock, called, scan, told, listing>>

(* The two goroutines that create records for a session: the backend's     *)
(* message handler and HandleSessionComplete.                              *)
Creators == Sessions \X {"tool", "scan"}
Project(c) == ProjectOf[c[1]]
NoCreator == <<>>

NoCall == [phase |-> "none"]
Call(d) == [phase |-> "begun", decision |-> d]
InTx(c) == tx[c].phase # "none"

Rows == [project : Projects, seq : Nat \ {0}, session : Sessions,
         source : {"tool", "scan"}, decision : Decisions]

RowsOf(p) == {r \in adrs : r.project = p}
SeqsOf(p) == {r.seq : r \in RowsOf(p)}

Init ==
  /\ adrs = {}
  /\ tx = [c \in Creators |-> NoCall]
  /\ lock = [p \in Projects |-> NoCreator]
  /\ called = [s \in Sessions |-> 0]
  /\ scan = [s \in Sessions |-> [phase |-> "before", texts |-> Texts[s], rest |-> <<>>]]
  /\ told = [c \in Creators |-> {}]
  /\ listing = [p \in Projects |-> [page |-> "first", sent |-> {}, cursor |-> 0]]

-----------------------------------------------------------------------------
(* The callers.                                                            *)

(* handleToolCall, HandleCreateADR: the next tool call of the agent; one   *)
(* that does not parse or lacks a field is answered with an error.         *)
CallTool(s) ==
  /\ ~InTx(<<s, "tool">>) /\ called[s] < Len(ToolCalls[s])
  /\ called' = [called EXCEPT ![s] = @ + 1]
  /\ \/ tx' = [tx EXCEPT ![<<s, "tool">>] = Call(ToolCalls[s][called[s] + 1])]
     \/ UNCHANGED tx
  /\ UNCHANGED <<adrs, lock, scan, told, listing>>

(* HandleSessionComplete with exit code 0 starts the extraction; it does   *)
(* not wait for a tool call that is still being handled.                   *)
Complete(s) ==
  /\ scan[s].phase = "before"
  /\ scan' = [scan EXCEPT ![s].phase = "scanning"]
  /\ UNCHANGED <<adrs, tx, lock, called, told, listing>>

(* ExtractFromSession ranges over a map, so the texts come in any order.   *)
NextText(s) ==
  /\ scan[s].phase = "scanning" /\ scan[s].rest = <<>> /\ ~InTx(<<s, "scan">>)
  /\ \/ \E t \in scan[s].texts :
          scan' = [scan EXCEPT ![s].texts = @ \ {t}, ![s].rest = t]
     \/ scan[s].texts = {} /\ scan' = [scan EXCEPT ![s].phase = "over"]
  /\ UNCHANGED <<adrs, tx, lock, called, told, listing>>

(* extractDecisionsFromText: the markers of a text one after the other.    *)
NextMarker(s) ==
  /\ scan[s].phase = "scanning" /\ scan[s].rest # <<>> /\ ~InTx(<<s, "scan">>)
  /\ tx' = [tx EXCEPT ![<<s, "scan">>] = Call(Head(scan[s].rest))]
  /\ scan' = [scan EXCEPT ![s].rest = Tail(@)]
  /\ UNCHANGED <<adrs, lock, called, told, listing>>

(* A create that fails ends the whole extraction; for a tool call the      *)
(* error is all there is.                                                  *)
GiveUp(c) ==
  scan' = IF c[2] = "scan" THEN [scan EXCEPT ![c[1]].phase = "over"] ELSE scan

-----------------------------------------------------------------------------
(* CreateWithNextSequence.                                                 *)

MaxSeq(p) == IF SeqsOf(p) = {} THEN 0
             ELSE CHOOSE n \in SeqsOf(p) : \A m \in SeqsOf(p) : m <= n

(* LockProjectForUpdate is sent: the snapshot the INSERT will read from.   *)
AskLock(c) ==
  /\ tx[c].phase = "begun"
  /\ tx' = [tx EXCEPT ![c] = [phase |-> "waiting", decision |-> tx[c].decision,
                              max |-> MaxSeq(Project(c))]]
  /\ UNCHANGED <<adrs, lock, called, scan, told, listing>>

GetLock(c) ==
  /\ tx[c].phase = "waiting" /\ lock[Project(c)] = NoCreator
  /\ lock' = [lock EXCEPT ![Project(c)] = c]
  /\ tx' = [tx EXCEPT ![c].phase = "locked"]
  /\ UNCHANGED <<adrs, called, scan, told, listing>>

(* Mutant: an error return leaves the transaction open.                    *)
KeepOpen(c) == UNCHANGED lock

(* The end of a transaction gives the lock back.                           *)
Release(c) == lock' = [p \in Projects |-> IF lock[p] = c THEN NoCreator ELSE lock[p]]

(* withinTx's deferred rollback.                                           *)
Rollback(c) ==
  /\ Release(c)
  /\ tx' = [tx EXCEPT ![c] = NoCall]
  /\ GiveUp(c)

(* Mutant: no unique constraint.                                           *)
NeverTaken(p, n) == FALSE

(* uq_adrs_project_sequence.                                               *)
Taken(p, n) == n \in SeqsOf(p)

(* The INSERT of MAX(sequence) + 1.                                        *)
InsertNext(c) ==
  /\ tx[c].phase = "locked"
  /\ \/ /\ ~Taken(Project(c), tx[c].max + 1)
        /\ tx' = [tx EXCEPT ![c].phase = "inserted"]
        /\ UNCHANGED <<lock, scan>>
     \/ Taken(Project(c), tx[c].max + 1) /\ Rollback(c)
  /\ UNCHANGED <<adrs, called, told, listing>>

Row(c) == [project |-> Project(c), seq |-> tx[c].max + 1, session |-> c[1],
           source |-> c[2], decision |-> tx[c].decision]

(* Mutant: the error of the commit is not looked at.                       *)
CommitUnchecked(c) ==
  /\ tx[c].phase = "inserted"
  /\ adrs' = adrs \cup {Row(c)} \/ UNCHANGED adrs
  /\ told' = [told EXCEPT ![c] = @ \cup {Row(c)}]
  /\ Release(c) /\ tx' = [tx EXCEPT ![c] = NoCall]
  /\ UNCHANGED <<scan, called, listing>>

(* Mutant: after a lost reply the transaction is simply run again.         *)
CommitRetried(c) ==
  /\ tx[c].phase = "inserted"
  /\ \/ adrs' = adrs \cup {Row(c)}
     \/ adrs' = adrs \cup {Row(c), [Row(c) EXCEPT !.seq = @ + 1]}
  /\ told' = [told EXCEPT ![c] = @ \cup {Row(c)}]
  /\ Release(c) /\ tx' = [tx EXCEPT ![c] = NoCall]
  /\ UNCHANGED <<scan, called, listing>>

(* COMMIT; its reply may be lost, and the caller is told of an error.      *)
Commit(c) ==
  /\ tx[c].phase = "inserted"
  /\ adrs' = adrs \cup {Row(c)}
  /\ Release(c)
  /\ tx' = [tx EXCEPT ![c] = NoCall]
  /\ \/ told' = [told EXCEPT ![c] = @ \cup {Row(c)}] /\ UNCHANGED scan
     \/ GiveUp(c) /\ UNCHANGED told
  /\ UNCHANGED <<called, listing>>

(* Any statement fails: lost connection, cancelled context, a              *)
(* serialization failure, a project that is gone.                          *)
Fail(c) ==
  /\ InTx(c)
  /\ Rollback(c)
  /\ UNCHANGED <<adrs, called, told, listing>>

-----------------------------------------------------------------------------
(* Listing the decisions of a project, page by page.                       *)

(* Mutant: the newest first.                                               *)
LimitNewest(rows) == {r \in rows : Cardinality({q \in rows : q.seq > r.seq}) < PageSize}

(* ORDER BY sequence LIMIT PageSize.                                       *)
Limit(rows) == {r \in rows : Cardinality({q \in rows : q.seq < r.seq}) < PageSize}

(* WHERE sequence > that of the cursor's row; numbers are not shared.      *)
RowsAfter(p, n) == {r \in RowsOf(p) : r.seq > n}

(* The number of the last row of a page, whose id is the cursor.           *)
LastSeq(page) == CHOOSE n \in {r.seq : r \in page} : \A r \in page : r.seq <= n

(* The page a client is sent, and the cursor it gets if the page is full.  *)
SendPage(p, page) ==
  /\ listing' = [listing EXCEPT ![p] =
       [ page   |-> IF Cardinality(page) = PageSize THEN "next" ELSE "over",
         sent   |-> @.sent \cup page,
         cursor |-> IF page = {} THEN @.cursor ELSE LastSeq(page) ]]
  /\ UNCHANGED <<adrs, tx, lock, called, scan, told>>

(* ListADRsByProject.                                                      *)
FirstPage(p) == listing[p].page = "first" /\ SendPage(p, Limit(RowsOf(p)))

(* ListADRsByProjectAfter the row of the cursor.                           *)
NextPage(p) ==
  listing[p].page = "next" /\ SendPage(p, Limit(RowsAfter(p, listing[p].cursor)))

-----------------------------------------------------------------------------
Create(c) == AskLock(c) \/ GetLock(c) \/ InsertNext(c) \/ Commit(c)

Next ==
  \/ \E s \in Sessions : CallTool(s) \/ Complete(s) \/ NextText(s) \/ NextMarker(s)
  \/ \E c \in Creators : Create(c) \/ Fail(c)
  \/ \E p \in Projects : FirstPage(p) \/ NextPage(p)

(* The database answers every statement; a waiting lock is granted once it *)
(* is free.  Nothing makes an agent call a tool or end.                    *)
Spec == Init /\ [][Next]_vars /\ \A c \in Creators : WF_vars(Create(c))

-----------------------------------------------------------------------------
Calls == [phase : {"none"}] \cup [phase : {"begun"}, decision : Decisions]
         \cup [phase : {"waiting", "locked", "inserted"}, decision : Decisions, max : Nat]

(* The types of the variables; a call that has asked for the lock has a    *)
(* snapshot, and only rows have been told and listed.                      *)
TypeOK ==
  /\ adrs \subseteq Rows
  /\ tx \in [Creators -> Calls]
  /\ lock \in [Projects -> Creators \cup {NoCreator}]
  /\ called \in [Sessions -> Nat]
  /\ scan \in [Sessions -> [phase : {"before", "scanning", "over"},
                            texts : SUBSET Seq(Decisions), rest : Seq(Decisions)]]
  /\ told \in [Creators -> SUBSET Rows]
  /\ listing \in [Projects -> [page : {"first", "next", "over"},
                                sent : SUBSET Rows, cursor : Nat]]

(* "auto-assigning the next sequence number within the project": however   *)
(* calls overlap and fail, the decisions of a project are numbered 1, 2,   *)
(* ... with no number missing and none given twice.                        *)
Gapless == \A p \in Projects : SeqsOf(p) = 1..Cardinality(RowsOf(p))

(* What the record with number n of project p says, and the timeline.      *)
Entries == [session : Sessions, source : {"tool", "scan"}, decision : Decisions]
EntryOf(r) == [session |-> r.session, source |-> r.source, decision |-> r.decision]
Nth(p, n) == EntryOf(CHOOSE r \in RowsOf(p) : r.seq = n)
TimelineOf == [p \in Projects |-> [n \in 1..Cardinality(RowsOf(p)) |-> Nth(p, n)]]

Timeline == INSTANCE AdrTimeline WITH
  Projects <- Projects, Entries <- Entries, timeline <- TimelineOf

(* The transactions of all creators together are an append-only timeline:  *)
(* each commit is one append to its project and nothing else changes it.   *)
ImplementsTimeline == Timeline!Spec

(* A number told to a caller (and published as adr_sequence) is that       *)
(* record's number in the table; two callers are never told the same.      *)
ToldIsRecorded ==
  \A c \in Creators : \A r \in told[c] :
    /\ r \in adrs
    /\ \A q \in adrs : q.project = r.project /\ q.seq = r.seq => q = r

(* While decisions are being recorded a client that pages through them     *)
(* misses none and is sent none twice: what it has is all there is, up to  *)
(* its cursor, and no decision is ever recorded behind the cursor.         *)
ListingIsComplete ==
  \A p \in Projects :
    listing[p].sent = {r \in RowsOf(p) : r.seq <= listing[p].cursor}

(* Every call returns: no creator waits for a lock that is never released. *)
CallsReturn == \A c \in Creators : InTx(c) ~> ~InTx(c)
=============================================================================
