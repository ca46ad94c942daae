--------------------------- MODULE AdrStoreProofs ---------------------------
(***************************************************************************)
(* Proofs about AdrStore for every number of projects, sessions, tool      *)
(* calls and markers: the types, the gapless numbering, the truth of what  *)
(* creators are told, the completeness of listings, and the refinement of  *)
(* AdrTimeline.                                                            *)
(*                                                                         *)
(* The numbering rests on three facts about a call in its transaction: the *)
(* lock is its own from the grant to the end, its snapshot counts at most  *)
(* the rows there are, and once the unique constraint has let the INSERT   *)
(* pass it counts exactly those, until the COMMIT.                         *)
(***************************************************************************)
EXTENDS AdrStore, FiniteSetTheorems, SequenceTheorems, TLAPS

Finite == IsFiniteSet(adrs)
Size(p) == Cardinality(RowsOf(p))

(* Numbers are not shared within a project.                                *)
Distinct == \A q, r \in adrs : q.project = r.project /\ q.seq = r.seq => q = r

(* Who is past the grant holds the lock.                                   *)
Exclusive ==
  \A c \in Creators : tx[c].phase \in {"locked", "inserted"} => lock[Project(c)] = c

(* A snapshot may be old but never ahead of the table.                     *)
Snapshots ==
  \A c \in Creators :
    tx[c].phase \in {"waiting", "locked", "inserted"} => tx[c].max <= Size(Project(c))

(* An INSERT that has passed is of the next number, and stays so.          *)
Numbered ==
  \A c \in Creators : tx[c].phase = "inserted" => tx[c].max = Size(Project(c))

Told == \A c \in Creators : told[c] \subseteq adrs

(* No client is ahead of the table.                                        *)
Listed ==
  \A p \in Projects :
    /\ listing[p].cursor <= Size(p)
    /\ listing[p].page = "first" => listing[p].sent = {} /\ listing[p].cursor = 0

IInv ==
  /\ TypeOK /\ Finite /\ Gapless /\ Distinct
  /\ Exclusive /\ Snapshots /\ Numbered
  /\ Told /\ Listed /\ ListingIsComplete

-----------------------------------------------------------------------------
(* The table.                                                              *)

(* A project's rows can be counted.                                        *)
LEMMA RowsAreFinite ==
  ASSUME Finite, NEW p
  PROVE  IsFiniteSet(RowsOf(p)) /\ Size(p) \in Nat
<1>1. RowsOf(p) \in SUBSET adrs
  BY DEF RowsOf
<1>2. IsFiniteSet(RowsOf(p))
  BY <1>1, FS_Subset DEF Finite
<1>3. QED
  BY <1>2, FS_CardinalityType DEF Size

(* The MAX(sequence) of a gapless project is the number of its rows.       *)
LEMMA MaxIsSize ==
  ASSUME Finite, Gapless, NEW p \in Projects
  PROVE  MaxSeq(p) = Size(p)
<1>1. Size(p) \in Nat /\ SeqsOf(p) = 1..Size(p)
  BY RowsAreFinite DEF Gapless, Size
<1>2. CASE SeqsOf(p) = {}
  <2>1. Size(p) = 0
    BY <1>1, <1>2
  <2>2. QED
    BY <1>2, <2>1 DEF MaxSeq
<1>3. CASE SeqsOf(p) # {}
  <2>1. Size(p) \in SeqsOf(p) /\ \A m \in SeqsOf(p) : m <= Size(p)
    BY <1>1, <1>3
  <2>2. \A n \in SeqsOf(p) : (\A m \in SeqsOf(p) : m <= n) => n = Size(p)
    BY <1>1, <2>1
  <2>3. QED
    BY <1>3, <2>1, <2>2 DEF MaxSeq
<1>4. QED
  BY <1>2, <1>3

(* A creator's project, row and call have their types.                     *)
LEMMA ProjectOfCreator ==
  ASSUME NEW c \in Creators
  PROVE  c[1] \in Sessions /\ c[2] \in {"tool", "scan"} /\ Project(c) \in Projects
BY AdrAssumption DEF Creators, Project

(* No creator is the absence of one.                                       *)
LEMMA NoCreatorIsNone == NoCreator \notin Creators
<1>1. SUFFICES ASSUME NEW s \in Sessions, NEW k \in {"tool", "scan"}, <<>> = <<s, k>> PROVE FALSE
  BY DEF NoCreator, Creators
<1>2. Len(<<>>) = 0 /\ Len(<<s, k>>) = 2
  OBVIOUS
<1>3. QED
  BY <1>1, <1>2

-----------------------------------------------------------------------------
(* Types.                                                                  *)

LEMMA InitTypeOK == Init => TypeOK
<1>1. SUFFICES ASSUME Init PROVE TypeOK
  OBVIOUS
<1>2. tx \in [Creators -> Calls]
  BY <1>1 DEF Init, NoCall, Calls
<1>3. scan \in [Sessions -> [phase : {"before", "scanning", "over"},
                             texts : SUBSET Seq(Decisions), rest : Seq(Decisions)]]
  BY <1>1, AdrAssumption DEF Init
<1>4. QED
  BY <1>1, <1>2, <1>3 DEF Init, TypeOK

(* What a transaction that begins is asked to record can be recorded.      *)
LEMMA CallersTypeOK ==
  ASSUME TypeOK, NEW s \in Sessions, CallTool(s) \/ Complete(s) \/ NextText(s) \/ NextMarker(s)
  PROVE  TypeOK'
<1> USE DEF TypeOK
<1>0. <<s, "tool">> \in Creators /\ <<s, "scan">> \in Creators
  BY DEF Creators
<1>1. CASE CallTool(s)
  <2>1. called[s] \in Nat /\ ToolCalls[s] \in Seq(Decisions) /\ called[s] < Len(ToolCalls[s])
    BY <1>1, AdrAssumption DEF CallTool
  <2>2. ToolCalls[s][called[s] + 1] \in Decisions
    BY <2>1
  <2>3. Call(ToolCalls[s][called[s] + 1]) \in Calls
    BY <2>2 DEF Call, Calls
  <2>4. tx' \in [Creators -> Calls]
    BY <1>0, <1>1, <2>3 DEF CallTool
  <2>5. called' \in [Sessions -> Nat]
    BY <1>1, <2>1 DEF CallTool
  <2>6. QED
    BY <1>1, <2>4, <2>5 DEF CallTool
<1>2. CASE Complete(s)
  BY <1>2 DEF Complete
<1>3. CASE NextText(s)
  <2>1. ASSUME NEW t \in scan[s].texts
        PROVE  [scan[s] EXCEPT !.texts = @ \ {t}, !.rest = t]
                 \in [phase : {"before", "scanning", "over"},
                     texts : SUBSET Seq(Decisions), rest : Seq(Decisions)]
    <3>1. t \in Seq(Decisions) /\ scan[s].texts \ {t} \in SUBSET Seq(Decisions)
      OBVIOUS
    <3>2. QED
      BY <3>1
  <2>2. scan' \in [Sessions -> [phase : {"before", "scanning", "over"},
                                texts : SUBSET Seq(Decisions), rest : Seq(Decisions)]]
    <3>1. CASE scan[s].texts = {} /\ scan' = [scan EXCEPT ![s].phase = "over"]
      BY <3>1
    <3>2. ASSUME NEW t \in scan[s].texts,
                 scan' = [scan EXCEPT ![s].texts = @ \ {t}, ![s].rest = t]
          PROVE  scan' \in [Sessions -> [phase : {"before", "scanning", "over"},
                                texts : SUBSET Seq(Decisions), rest : Seq(Decisions)]]
      <4>1. scan' = [scan EXCEPT ![s] = [scan[s] EXCEPT !.texts = @ \ {t}, !.rest = t]]
        BY <3>2
      <4>2. QED
        BY <2>1, <4>1
    <3>3. QED
      BY <1>3, <3>1, <3>2 DEF NextText
  <2>3. QED
    BY <1>3, <2>2 DEF NextText
<1>4. CASE NextMarker(s)
  <2>1. scan[s].rest \in Seq(Decisions) /\ scan[s].rest # <<>>
    BY <1>4 DEF NextMarker
  <2>2. Head(scan[s].rest) \in Decisions /\ Tail(scan[s].rest) \in Seq(Decisions)
    BY <2>1, HeadTailProperties
  <2>3. Call(Head(scan[s].rest)) \in Calls
    BY <2>2 DEF Call, Calls
  <2>4. tx' \in [Creators -> Calls]
    BY <1>0, <1>4, <2>3 DEF NextMarker
  <2>5. scan' \in [Sessions -> [phase : {"before", "scanning", "over"},
                                texts : SUBSET Seq(Decisions), rest : Seq(Decisions)]]
    BY <1>4, <2>2 DEF NextMarker
  <2>6. QED
    BY <1>4, <2>4, <2>5 DEF NextMarker
<1>5. QED
  BY <1>1, <1>2, <1>3, <1>4

(* The end of a transaction.                                               *)
LEMMA ReleaseTypeOK ==
  ASSUME TypeOK, NEW c \in Creators, Release(c)
  PROVE  lock' \in [Projects -> Creators \cup {NoCreator}]
BY DEF TypeOK, Release

LEMMA GiveUpTypeOK ==
  ASSUME TypeOK, NEW c \in Creators, GiveUp(c)
  PROVE  scan' \in [Sessions -> [phase : {"before", "scanning", "over"},
                                 texts : SUBSET Seq(Decisions), rest : Seq(Decisions)]]
BY ProjectOfCreator DEF TypeOK, GiveUp

LEMMA NoCallTypeOK ==
  ASSUME TypeOK, NEW c \in Creators
  PROVE  [tx EXCEPT ![c] = NoCall] \in [Creators -> Calls]
BY DEF TypeOK, NoCall, Calls

LEMMA RollbackTypeOK ==
  ASSUME TypeOK, NEW c \in Creators, Rollback(c), UNCHANGED <<adrs, called, told, listing>>
  PROVE  TypeOK'
<1>1. tx' \in [Creators -> Calls]
  BY NoCallTypeOK DEF Rollback
<1>2. QED
  BY <1>1, ReleaseTypeOK, GiveUpTypeOK DEF TypeOK, Rollback

LEMMA RowTypeOK ==
  ASSUME TypeOK, NEW c \in Creators, tx[c].phase = "inserted"
  PROVE  Row(c) \in Rows
<1>1. tx[c].decision \in Decisions /\ tx[c].max \in Nat
  BY DEF TypeOK, Calls
<1>2. QED
  BY <1>1, ProjectOfCreator DEF Row, Rows

LEMMA CreateTypeOK ==
  ASSUME TypeOK, Finite, Gapless, NEW c \in Creators, Create(c) \/ Fail(c)
  PROVE  TypeOK'
<1> USE DEF TypeOK
<1>1. CASE AskLock(c)
  <2>1. tx[c].decision \in Decisions
    BY <1>1 DEF AskLock, Calls
  <2>2. MaxSeq(Project(c)) \in Nat
    BY MaxIsSize, RowsAreFinite, ProjectOfCreator
  <2>3. tx' \in [Creators -> Calls]
    BY <1>1, <2>1, <2>2 DEF AskLock, Calls
  <2>4. QED
    BY <1>1, <2>3 DEF AskLock
<1>2. CASE GetLock(c)
  <2>1. tx[c] \in [phase : {"waiting", "locked", "inserted"}, decision : Decisions, max : Nat]
    BY <1>2 DEF GetLock, Calls
  <2>2. [tx[c] EXCEPT !.phase = "locked"] \in Calls
    BY <2>1 DEF Calls
  <2>3. tx' \in [Creators -> Calls]
    BY <1>2, <2>2 DEF GetLock
  <2>4. QED
    BY <1>2, <2>3, ProjectOfCreator DEF GetLock
<1>3. CASE InsertNext(c)
  <2>1. CASE Taken(Project(c), tx[c].max + 1)
    BY <1>3, <2>1, RollbackTypeOK DEF InsertNext
  <2>2. CASE ~Taken(Project(c), tx[c].max + 1)
    <3>1. tx[c] \in [phase : {"waiting", "locked", "inserted"}, decision : Decisions, max : Nat]
      BY <1>3 DEF InsertNext, Calls
    <3>2. [tx[c] EXCEPT !.phase = "inserted"] \in Calls
      BY <3>1 DEF Calls
    <3>3. tx' \in [Creators -> Calls]
      BY <1>3, <2>2, <3>2 DEF InsertNext
    <3>4. QED
      BY <1>3, <2>2, <3>3 DEF InsertNext
  <2>3. QED
    BY <2>1, <2>2
<1>4. CASE Commit(c)
  <2>1. Row(c) \in Rows
    BY <1>4, RowTypeOK DEF Commit
  <2>2. tx' \in [Creators -> Calls] /\ lock' \in [Projects -> Creators \cup {NoCreator}]
    BY <1>4, NoCallTypeOK, ReleaseTypeOK DEF Commit
  <2>3. told' \in [Creators -> SUBSET Rows]
    BY <1>4, <2>1 DEF Commit
  <2>4. scan' \in [Sessions -> [phase : {"before", "scanning", "over"},
                                texts : SUBSET Seq(Decisions), rest : Seq(Decisions)]]
    BY <1>4, GiveUpTypeOK DEF Commit
  <2>5. QED
    BY <1>4, <2>1, <2>2, <2>3, <2>4 DEF Commit
<1>5. CASE Fail(c)
  BY <1>5, RollbackTypeOK DEF Fail
<1>6. QED
  BY <1>1, <1>2, <1>3, <1>4, <1>5 DEF Create

-----------------------------------------------------------------------------
(* Pages.                                                                  *)

(* In a gapless project the rows of a number above n and below that of r   *)
(* are as many as the numbers between them.                                *)
LEMMA BelowCount ==
  ASSUME TypeOK, Finite, Gapless, Distinct, NEW p \in Projects, NEW n \in Nat,
         NEW r \in RowsAfter(p, n)
  PROVE  Cardinality({q \in RowsAfter(p, n) : q.seq < r.seq}) = r.seq - 1 - n
<1> DEFINE B == {q \in RowsAfter(p, n) : q.seq < r.seq}
           I == (n + 1)..(r.seq - 1)
           f == [q \in B |-> q.seq]
<1>1. Size(p) \in Nat /\ SeqsOf(p) = 1..Size(p) /\ IsFiniteSet(RowsOf(p))
  BY RowsAreFinite DEF Gapless, Size
<1>2. \A q \in RowsOf(p) : q \in adrs /\ q.project = p /\ q.seq \in Nat \ {0}
  BY DEF RowsOf, TypeOK, Rows
<1>3. r \in RowsOf(p) /\ r.seq > n /\ r.seq \in 1..Size(p)
  BY <1>1 DEF RowsAfter, SeqsOf
<1>4. IsFiniteSet(B)
  <2>1. B \in SUBSET RowsOf(p)
    BY DEF RowsAfter
  <2>2. QED
    BY <1>1, <2>1, FS_Subset
<1>5. f \in [B -> I]
  BY <1>2, <1>3 DEF RowsAfter
<1>6. \A a, b \in B : f[a] = f[b] => a = b
  BY <1>2 DEF RowsAfter, Distinct
<1>7. \A i \in I : \E q \in B : f[q] = i
  <2>1. SUFFICES ASSUME NEW i \in I PROVE \E q \in B : q.seq = i
    OBVIOUS
  <2>2. i \in SeqsOf(p)
    BY <1>1, <1>3
  <2>3. PICK q \in RowsOf(p) : q.seq = i
    BY <2>2 DEF SeqsOf
  <2>4. q \in B
    BY <1>3, <2>3 DEF RowsAfter
  <2>5. QED
    BY <2>3, <2>4
<1>8. ExistsBijection(B, I)
  <2>1. f \in Bijection(B, I)
    BY <1>5, <1>6, <1>7 DEF Bijection, Injection, Surjection, IsInjective
  <2>2. QED
    BY <2>1 DEF ExistsBijection
<1>9. Cardinality(I) = Cardinality(B)
  BY <1>4, <1>8, FS_Bijection
<1>10. Cardinality(I) = r.seq - 1 - n
  <2>1. n + 1 \in Int /\ r.seq - 1 \in Int /\ ~(n + 1 > r.seq)
    BY <1>3
  <2>2. Cardinality(I) = IF n + 1 > r.seq - 1 THEN 0 ELSE (r.seq - 1) - (n + 1) + 1
    BY <2>1, FS_Interval
  <2>3. QED
    BY <1>3, <2>1, <2>2
<1>11. QED
  BY <1>9, <1>10

(* A page holds the rows of the next PageSize numbers.                     *)
LEMMA PageIsNext ==
  ASSUME TypeOK, Finite, Gapless, Distinct, NEW p \in Projects, NEW n \in Nat
  PROVE  Limit(RowsAfter(p, n)) = {r \in RowsOf(p) : n < r.seq /\ r.seq <= n + PageSize}
<1>1. \A r \in RowsAfter(p, n) :
        r \in Limit(RowsAfter(p, n)) <=> r.seq - 1 - n < PageSize
  BY BelowCount DEF Limit
<1>2. \A r \in RowsOf(p) : r.seq \in Nat \ {0}
  BY DEF RowsOf, TypeOK, Rows
<1>3. PageSize \in Nat
  BY AdrAssumption
<1>4. QED
  BY <1>1, <1>2, <1>3 DEF Limit, RowsAfter

(* The first page is the one after number 0.                               *)
LEMMA FirstIsAfterNone ==
  ASSUME TypeOK, NEW p \in Projects
  PROVE  RowsOf(p) = RowsAfter(p, 0)
BY DEF RowsAfter, RowsOf, TypeOK, Rows

(* The cursor of a page that is not empty: the last row of the page, which *)
(* holds all rows up to it.                                                *)
LEMMA CursorOfPage ==
  ASSUME TypeOK, Finite, Gapless, Distinct, NEW p \in Projects, NEW n \in Nat,
         NEW page, page = Limit(RowsAfter(p, n)), page # {}
  PROVE  /\ LastSeq(page) \in Nat /\ n < LastSeq(page) /\ LastSeq(page) <= Size(p)
         /\ page = {r \in RowsOf(p) : n < r.seq /\ r.seq <= LastSeq(page)}
<1> DEFINE last == IF n + PageSize <= Size(p) THEN n + PageSize ELSE Size(p)
<1>1. Size(p) \in Nat /\ SeqsOf(p) = 1..Size(p)
  BY RowsAreFinite DEF Gapless, Size
<1>2. PageSize \in Nat /\ PageSize > 0
  BY AdrAssumption
<1>3. page = {r \in RowsOf(p) : n < r.seq /\ r.seq <= n + PageSize}
  BY PageIsNext
<1>4. \A r \in RowsOf(p) : r.seq \in 1..Size(p)
  BY <1>1 DEF SeqsOf
<1>5. last \in Nat /\ n < last /\ last <= Size(p) /\ last <= n + PageSize
  <2>1. PICK r \in page : TRUE
    OBVIOUS
  <2>2. n < Size(p)
    BY <1>1, <1>3, <1>4, <2>1
  <2>3. QED
    BY <1>1, <1>2, <2>2
<1>6. \A r \in page : r.seq \in Nat /\ r.seq <= last
  BY <1>1, <1>2, <1>3, <1>4
<1>7. last \in {r.seq : r \in page}
  <2>1. last \in SeqsOf(p)
    BY <1>1, <1>5
  <2>2. PICK r \in RowsOf(p) : r.seq = last
    BY <2>1 DEF SeqsOf
  <2>3. QED
    BY <1>3, <1>5, <2>2
<1>8. LastSeq(page) = last
  <2>1. \A m \in {r.seq : r \in page} : (\A r \in page : r.seq <= m) => m = last
    BY <1>5, <1>6, <1>7
  <2>2. QED
    BY <1>6, <1>7, <2>1 DEF LastSeq
<1>9. page = {r \in RowsOf(p) : n < r.seq /\ r.seq <= last}
  BY <1>1, <1>2, <1>3, <1>4, <1>5
<1>10. QED
  BY <1>5, <1>8, <1>9

(* A page that is empty leaves nothing behind the cursor.                  *)
LEMMA SendPageStep ==
  ASSUME IInv, NEW p \in Projects, NEW page,
         page = Limit(RowsAfter(p, listing[p].cursor)), SendPage(p, page)
  PROVE  listing' \in [Projects -> [page : {"first", "next", "over"},
                                     sent : SUBSET Rows, cursor : Nat]]
         /\ Listed' /\ ListingIsComplete'
<1> DEFINE n == listing[p].cursor
           new == [ page   |-> IF Cardinality(page) = PageSize THEN "next" ELSE "over",
                    sent   |-> listing[p].sent \cup page,
                    cursor |-> IF page = {} THEN n ELSE LastSeq(page) ]
<1>1. /\ TypeOK /\ Finite /\ Gapless /\ Distinct /\ Listed /\ ListingIsComplete
      /\ n \in Nat /\ n <= Size(p) /\ Size(p) \in Nat
  BY RowsAreFinite DEF IInv, TypeOK, Listed
<1>2. listing' = [listing EXCEPT ![p] = new] /\ UNCHANGED adrs
  BY DEF SendPage
<1>3. \A x : RowsOf(x)' = RowsOf(x) /\ Size(x)' = Size(x)
  BY <1>2 DEF RowsOf, Size
<1>4. listing[p].sent = {r \in RowsOf(p) : r.seq <= n}
  BY <1>1 DEF ListingIsComplete
<1>5. \A r \in RowsOf(p) : r \in Rows /\ r.seq \in Nat \ {0}
  BY <1>1 DEF RowsOf, TypeOK, Rows
<1>6. /\ new.cursor \in Nat /\ new.cursor <= Size(p) /\ new.sent \in SUBSET Rows
      /\ new.sent = {r \in RowsOf(p) : r.seq <= new.cursor}
  <2>1. CASE page = {}
    BY <1>1, <1>4, <1>5, <2>1
  <2>2. CASE page # {}
    <3>1. /\ LastSeq(page) \in Nat /\ n < LastSeq(page) /\ LastSeq(page) <= Size(p)
          /\ page = {r \in RowsOf(p) : n < r.seq /\ r.seq <= LastSeq(page)}
      BY <1>1, <2>2, CursorOfPage
    <3>2. new.cursor = LastSeq(page) /\ new.sent = listing[p].sent \cup page
      BY <2>2
    <3>3. new.sent = {r \in RowsOf(p) : r.seq <= LastSeq(page)}
      <4>1. \A r \in RowsOf(p) :
              r.seq <= LastSeq(page) <=> r.seq <= n \/ (n < r.seq /\ r.seq <= LastSeq(page))
        BY <1>1, <1>5, <3>1
      <4>2. QED
        BY <1>4, <3>1, <3>2, <4>1 DEF RowsOf
    <3>4. QED
      BY <1>5, <3>1, <3>2, <3>3
  <2>3. QED
    BY <2>1, <2>2
<1>7. new \in [page : {"first", "next", "over"}, sent : SUBSET Rows, cursor : Nat]
      /\ new.page # "first"
  BY <1>6
<1>8. listing' \in [Projects -> [page : {"first", "next", "over"},
                                 sent : SUBSET Rows, cursor : Nat]]
  BY <1>1, <1>2, <1>7 DEF TypeOK
<1>9. \A x \in Projects : listing'[x] = IF x = p THEN new ELSE listing[x]
  BY <1>1, <1>2 DEF TypeOK
<1>10. Listed'
  BY <1>1, <1>3, <1>6, <1>7, <1>9 DEF Listed
<1>11. ListingIsComplete'
  BY <1>1, <1>3, <1>6, <1>9 DEF ListingIsComplete
<1>12. QED
  BY <1>8, <1>10, <1>11

(* The client's requests.                                                  *)
LEMMA ListingStep ==
  ASSUME IInv, NEW p \in Projects, FirstPage(p) \/ NextPage(p)
  PROVE  listing' \in [Projects -> [page : {"first", "next", "over"},
                                     sent : SUBSET Rows, cursor : Nat]]
         /\ Listed' /\ ListingIsComplete' /\ UNCHANGED <<adrs, tx, lock, called, scan, told>>
<1>1. CASE FirstPage(p)
  <2>1. listing[p].cursor = 0 /\ RowsOf(p) = RowsAfter(p, 0)
    BY <1>1, FirstIsAfterNone DEF FirstPage, IInv, Listed
  <2>2. SendPage(p, Limit(RowsAfter(p, listing[p].cursor)))
    BY <1>1, <2>1 DEF FirstPage
  <2>3. UNCHANGED <<adrs, tx, lock, called, scan, told>>
    BY <2>2 DEF SendPage
  <2>4. QED
    BY <2>2, <2>3, SendPageStep
<1>2. CASE NextPage(p)
  <2>1. SendPage(p, Limit(RowsAfter(p, listing[p].cursor)))
    BY <1>2 DEF NextPage
  <2>2. UNCHANGED <<adrs, tx, lock, called, scan, told>>
    BY <2>1 DEF SendPage
  <2>3. QED
    BY <2>1, <2>2, SendPageStep
<1>3. QED
  BY <1>1, <1>2

-----------------------------------------------------------------------------
(* The transaction.                                                        *)

(* Steps that write no row: the table's facts stay, the calls' may change. *)
SameTable == UNCHANGED <<adrs, told, listing>>

LEMMA TableStays ==
  ASSUME IInv, SameTable
  PROVE  /\ Finite' /\ Gapless' /\ Distinct' /\ Told' /\ Listed' /\ ListingIsComplete'
         /\ \A p : RowsOf(p)' = RowsOf(p) /\ SeqsOf(p)' = SeqsOf(p) /\ Size(p)' = Size(p)
<1>1. \A p : RowsOf(p)' = RowsOf(p) /\ SeqsOf(p)' = SeqsOf(p) /\ Size(p)' = Size(p)
  BY DEF SameTable, RowsOf, SeqsOf, Size
<1>2. Finite' /\ Distinct' /\ Told'
  BY DEF IInv, SameTable, Finite, Distinct, Told
<1>3. Gapless'
  BY <1>1 DEF IInv, Gapless, Size
<1>4. Listed' /\ ListingIsComplete'
  BY <1>1 DEF IInv, SameTable, Listed, ListingIsComplete
<1>5. QED
  BY <1>1, <1>2, <1>3, <1>4

Locks == Exclusive /\ Snapshots /\ Numbered

(* A call that begins has no snapshot and no lock yet.                     *)
LEMMA CallersStep ==
  ASSUME IInv, NEW s \in Sessions, CallTool(s) \/ Complete(s) \/ NextText(s) \/ NextMarker(s)
  PROVE  SameTable /\ Locks'
<1>1. SameTable /\ lock' = lock
  BY DEF CallTool, Complete, NextText, NextMarker, SameTable
<1>2. \A c \in Creators : tx'[c] = tx[c] \/ tx'[c].phase = "begun"
  <2>1. tx \in [Creators -> Calls]
    BY DEF IInv, TypeOK
  <2>2. QED
    BY <2>1 DEF CallTool, Complete, NextText, NextMarker, Call
<1>3. \A p : Size(p)' = Size(p)
  BY <1>1, TableStays
<1>4. QED
  BY <1>1, <1>2, <1>3 DEF IInv, Locks, Exclusive, Snapshots, Numbered

(* The end of a transaction gives back no lock but its own.                *)
LEMMA OthersKeepTheirLock ==
  ASSUME IInv, NEW c \in Creators, Release(c), tx' = [tx EXCEPT ![c] = NoCall]
  PROVE  /\ Exclusive'
         /\ tx'[c].phase = "none" /\ \A d \in Creators : d # c => tx'[d] = tx[d]
<1>1. tx \in [Creators -> Calls]
  BY DEF IInv, TypeOK
<1>2. tx'[c].phase = "none" /\ \A d \in Creators : d # c => tx'[d] = tx[d]
  BY <1>1 DEF NoCall
<1>3. \A p \in Projects : lock[p] # c => lock'[p] = lock[p]
  BY DEF Release
<1>4. ASSUME NEW d \in Creators, tx'[d].phase \in {"locked", "inserted"}
      PROVE  lock'[Project(d)] = d
  <2>1. d # c /\ tx[d].phase \in {"locked", "inserted"}
    BY <1>2, <1>4
  <2>2. lock[Project(d)] = d /\ Project(d) \in Projects
    BY <2>1, ProjectOfCreator DEF IInv, Exclusive
  <2>3. QED
    BY <1>3, <2>1, <2>2
<1>5. QED
  BY <1>2, <1>4 DEF Exclusive, Project

LEMMA RollbackStep ==
  ASSUME IInv, NEW c \in Creators, Rollback(c), SameTable
  PROVE  Locks'
<1>1. Exclusive' /\ tx'[c].phase = "none" /\ \A d \in Creators : d # c => tx'[d] = tx[d]
  BY OthersKeepTheirLock DEF Rollback
<1>2. \A p : Size(p)' = Size(p)
  BY TableStays
<1>3. QED
  BY <1>1, <1>2 DEF IInv, Locks, Snapshots, Numbered, Project

LEMMA AskLockStep ==
  ASSUME IInv, NEW c \in Creators, AskLock(c)
  PROVE  SameTable /\ Locks'
<1>1. SameTable /\ lock' = lock
  BY DEF AskLock, SameTable
<1>2. tx'[c].phase = "waiting" /\ tx'[c].max = Size(Project(c))
      /\ \A d \in Creators : d # c => tx'[d] = tx[d]
  <2>1. MaxSeq(Project(c)) = Size(Project(c))
    BY MaxIsSize, ProjectOfCreator DEF IInv
  <2>2. tx \in [Creators -> Calls]
    BY DEF IInv, TypeOK
  <2>3. QED
    BY <2>1, <2>2 DEF AskLock
<1>3. (\A p : Size(p)' = Size(p)) /\ Size(Project(c)) \in Nat
  BY <1>1, TableStays, RowsAreFinite DEF IInv
<1>4. QED
  BY <1>1, <1>2, <1>3 DEF IInv, Locks, Exclusive, Snapshots, Numbered, Project

LEMMA GetLockStep ==
  ASSUME IInv, NEW c \in Creators, GetLock(c)
  PROVE  SameTable /\ Locks'
<1>1. SameTable
  BY DEF GetLock, SameTable
<1>2. Project(c) \in Projects /\ lock[Project(c)] = NoCreator
      /\ lock' = [lock EXCEPT ![Project(c)] = c] /\ tx[c].phase = "waiting"
  BY ProjectOfCreator DEF GetLock
<1>3. tx'[c].phase = "locked" /\ tx'[c].max = tx[c].max
      /\ \A d \in Creators : d # c => tx'[d] = tx[d]
  <2>1. tx[c] \in [phase : {"waiting", "locked", "inserted"}, decision : Decisions, max : Nat]
    BY <1>2 DEF IInv, TypeOK, Calls
  <2>2. QED
    BY <2>1 DEF GetLock, IInv, TypeOK
<1>4. \A p : Size(p)' = Size(p)
  BY <1>1, TableStays
<1>5. Exclusive'
  <2>1. lock \in [Projects -> Creators \cup {NoCreator}]
    BY DEF IInv, TypeOK
  <2>2. ASSUME NEW d \in Creators, d # c, tx'[d].phase \in {"locked", "inserted"}
        PROVE  lock'[Project(d)] = d
    <3>1. lock[Project(d)] = d /\ Project(d) \in Projects
      BY <1>3, <2>2, ProjectOfCreator DEF IInv, Exclusive
    <3>2. Project(d) # Project(c)
      BY <1>2, <3>1, NoCreatorIsNone
    <3>3. QED
      BY <1>2, <2>1, <3>1, <3>2
  <2>3. lock'[Project(c)] = c
    BY <1>2, <2>1
  <2>4. QED
    BY <2>2, <2>3 DEF Exclusive, Project
<1>6. Snapshots' /\ Numbered'
  BY <1>2, <1>3, <1>4 DEF IInv, Snapshots, Numbered, Project
<1>7. QED
  BY <1>1, <1>5, <1>6 DEF Locks

(* The unique constraint lets the INSERT pass only if the snapshot counted *)
(* all rows there are.                                                     *)
LEMMA InsertStep ==
  ASSUME IInv, NEW c \in Creators, InsertNext(c)
  PROVE  SameTable /\ Locks'
<1>1. CASE Taken(Project(c), tx[c].max + 1)
  <2>1. Rollback(c) /\ SameTable
    BY <1>1 DEF InsertNext, SameTable
  <2>2. QED
    BY <2>1, RollbackStep
<1>2. CASE ~Taken(Project(c), tx[c].max + 1)
  <2>1. SameTable /\ lock' = lock /\ tx[c].phase = "locked"
    BY <1>2 DEF InsertNext, SameTable
  <2>2. tx[c] \in [phase : {"waiting", "locked", "inserted"}, decision : Decisions, max : Nat]
    BY <2>1 DEF IInv, TypeOK, Calls
  <2>3. tx'[c].phase = "inserted" /\ tx'[c].max = tx[c].max
        /\ \A d \in Creators : d # c => tx'[d] = tx[d]
    BY <1>2, <2>2 DEF InsertNext, IInv, TypeOK
  <2>4. tx[c].max = Size(Project(c))
    <3>1. Project(c) \in Projects /\ tx[c].max \in Nat /\ Size(Project(c)) \in Nat
          /\ tx[c].max <= Size(Project(c))
      BY <2>1, <2>2, ProjectOfCreator, RowsAreFinite DEF IInv, Snapshots
    <3>2. SeqsOf(Project(c)) = 1..Size(Project(c))
      BY <3>1 DEF IInv, Gapless, Size
    <3>3. QED
      BY <1>2, <3>1, <3>2 DEF Taken
  <2>5. \A p : Size(p)' = Size(p)
    BY <2>1, TableStays
  <2>6. Exclusive'
    BY <2>1, <2>3 DEF IInv, Exclusive, Project
  <2>7. Snapshots' /\ Numbered'
    BY <2>1, <2>3, <2>4, <2>5 DEF IInv, Snapshots, Numbered, Project
  <2>8. QED
    BY <2>1, <2>6, <2>7 DEF Locks
<1>3. QED
  BY <1>1, <1>2

LEMMA FailStep ==
  ASSUME IInv, NEW c \in Creators, Fail(c)
  PROVE  SameTable /\ Locks'
BY RollbackStep DEF Fail, SameTable

(* What a commit does to the table: one more row, numbered Size + 1.       *)
LEMMA CommitAddsNext ==
  ASSUME IInv, NEW c \in Creators, Commit(c)
  PROVE  /\ Row(c) \in Rows /\ Row(c).project = Project(c)
         /\ Row(c).seq = Size(Project(c)) + 1 /\ Row(c) \notin adrs
         /\ adrs' = adrs \cup {Row(c)}
         /\ RowsOf(Project(c))' = RowsOf(Project(c)) \cup {Row(c)}
         /\ SeqsOf(Project(c))' = SeqsOf(Project(c)) \cup {Row(c).seq}
         /\ Size(Project(c))' = Size(Project(c)) + 1
         /\ \A p : p # Project(c) =>
              RowsOf(p)' = RowsOf(p) /\ SeqsOf(p)' = SeqsOf(p) /\ Size(p)' = Size(p)
<1> DEFINE q == Project(c)
<1>1. Row(c) \in Rows /\ Project(c) \in Projects /\ adrs' = adrs \cup {Row(c)}
  BY RowTypeOK, ProjectOfCreator DEF IInv, Commit
<1>2. Row(c).project = q /\ Row(c).seq = Size(q) + 1
  BY DEF Row, Commit, IInv, Numbered
<1>3. Size(q) \in Nat /\ SeqsOf(q) = 1..Size(q) /\ IsFiniteSet(RowsOf(q))
  BY <1>1, RowsAreFinite DEF IInv, Gapless, Size
<1>4. Row(c) \notin RowsOf(q) /\ Row(c) \notin adrs
  <2>1. \A r \in RowsOf(q) : r.seq \in SeqsOf(q)
    BY DEF SeqsOf
  <2>2. Row(c) \notin RowsOf(q)
    BY <1>2, <1>3, <2>1
  <2>3. QED
    BY <1>2, <2>2 DEF RowsOf
<1>5. RowsOf(q)' = RowsOf(q) \cup {Row(c)}
  <2>1. RowsOf(q)' = {r \in adrs' : r.project = q}
    BY DEF RowsOf, Project
  <2>2. QED
    BY <1>1, <1>2, <2>1 DEF RowsOf
<1>6. SeqsOf(q)' = SeqsOf(q) \cup {Row(c).seq}
  BY <1>5 DEF SeqsOf, Project
<1>7. Size(q)' = Size(q) + 1
  <2>1. Cardinality(RowsOf(q) \cup {Row(c)}) = Cardinality(RowsOf(q)) + 1
    BY <1>3, <1>4, FS_AddElement
  <2>2. QED
    BY <1>5, <2>1 DEF Size, Project
<1>8. ASSUME NEW p, p # q
      PROVE  RowsOf(p)' = RowsOf(p) /\ SeqsOf(p)' = SeqsOf(p) /\ Size(p)' = Size(p)
  <2>1. RowsOf(p)' = RowsOf(p)
    BY <1>1, <1>2, <1>8 DEF RowsOf
  <2>2. QED
    BY <2>1 DEF SeqsOf, Size
<1>9. QED
  BY <1>1, <1>2, <1>4, <1>5, <1>6, <1>7, <1>8

(* A commit keeps the numbering, whoever waits, and the client's pages:    *)
(* the new number is behind no cursor.                                     *)
LEMMA CommitStep ==
  ASSUME IInv, NEW c \in Creators, Commit(c)
  PROVE  /\ Finite' /\ Gapless' /\ Distinct' /\ Locks'
         /\ Told' /\ Listed' /\ ListingIsComplete'
<1> DEFINE q == Project(c)
<1>1. /\ Row(c).project = q /\ Row(c).seq = Size(q) + 1
      /\ adrs' = adrs \cup {Row(c)} /\ listing' = listing
      /\ RowsOf(q)' = RowsOf(q) \cup {Row(c)}
      /\ SeqsOf(q)' = SeqsOf(q) \cup {Row(c).seq}
      /\ Size(q)' = Size(q) + 1
      /\ \A p : p # q => RowsOf(p)' = RowsOf(p) /\ SeqsOf(p)' = SeqsOf(p) /\ Size(p)' = Size(p)
  BY CommitAddsNext DEF Commit
<1>2. q \in Projects /\ \A p \in Projects : Size(p) \in Nat /\ SeqsOf(p) = 1..Size(p)
  BY ProjectOfCreator, RowsAreFinite DEF IInv, Gapless, Size
<1>3. Finite'
  BY <1>1, FS_AddElement DEF IInv, Finite
<1>4. Gapless'
  <2>1. SeqsOf(q)' = 1..Size(q)'
    BY <1>1, <1>2
  <2>2. \A p \in Projects : SeqsOf(p)' = 1..Size(p)'
    BY <1>1, <1>2, <2>1
  <2>3. QED
    BY <2>2 DEF Gapless, Size
<1>5. Distinct'
  <2>1. ASSUME NEW r \in adrs, r.project = q PROVE r.seq # Row(c).seq
    <3>1. r.seq \in SeqsOf(q)
      BY <2>1 DEF SeqsOf, RowsOf
    <3>2. QED
      BY <1>1, <1>2, <3>1
  <2>2. QED
    BY <1>1, <2>1 DEF IInv, Distinct
<1>6. /\ Exclusive'
      /\ tx'[c].phase = "none" /\ \A d \in Creators : d # c => tx'[d] = tx[d]
  BY OthersKeepTheirLock DEF Commit
<1>7. Snapshots'
  <2>1. SUFFICES ASSUME NEW d \in Creators,
                        tx'[d].phase \in {"waiting", "locked", "inserted"}
                 PROVE  tx'[d].max <= Size(Project(d))'
    BY DEF Snapshots, Project
  <2>2. tx'[d] = tx[d] /\ tx[d].max <= Size(Project(d)) /\ Project(d) \in Projects
    BY <1>6, <2>1, ProjectOfCreator DEF IInv, Snapshots
  <2>3. tx[d].max \in Nat
    BY <2>1, <2>2 DEF IInv, TypeOK, Calls
  <2>4. QED
    BY <1>1, <1>2, <2>2, <2>3
<1>8. Numbered'
  <2>1. SUFFICES ASSUME NEW d \in Creators, tx'[d].phase = "inserted"
                 PROVE  tx'[d].max = Size(Project(d))'
    BY DEF Numbered, Project
  <2>2. d # c /\ tx'[d] = tx[d] /\ tx[d].max = Size(Project(d))
    BY <1>6, <2>1 DEF IInv, Numbered
  <2>3. lock[Project(d)] = d /\ lock[q] = c
    BY <2>1, <2>2 DEF IInv, Exclusive, Commit
  <2>4. QED
    BY <1>1, <2>2, <2>3
<1>9. Told'
  <2>1. told' = told \/ told' = [told EXCEPT ![c] = @ \cup {Row(c)}]
    BY DEF Commit
  <2>2. told \in [Creators -> SUBSET Rows]
    BY DEF IInv, TypeOK
  <2>3. QED
    BY <1>1, <2>1, <2>2 DEF IInv, Told
<1>10. \A p \in Projects : listing[p].cursor \in Nat /\ listing[p].cursor <= Size(p)
  BY DEF IInv, TypeOK, Listed
<1>11. Listed'
  BY <1>1, <1>2, <1>10 DEF IInv, Listed
<1>12. ListingIsComplete'
  <2>1. listing[q].cursor < Row(c).seq
    BY <1>1, <1>2, <1>10
  <2>2. {r \in RowsOf(q)' : r.seq <= listing[q].cursor}
          = {r \in RowsOf(q) : r.seq <= listing[q].cursor}
    BY <1>1, <1>2, <1>10, <2>1
  <2>3. ASSUME NEW p \in Projects
        PROVE  listing'[p].sent = {r \in RowsOf(p)' : r.seq <= listing'[p].cursor}
    BY <1>1, <2>2 DEF IInv, ListingIsComplete
  <2>4. QED
    BY <2>3 DEF ListingIsComplete
<1>13. QED
  BY <1>3, <1>4, <1>5, <1>6, <1>7, <1>8, <1>9, <1>11, <1>12 DEF Locks

-----------------------------------------------------------------------------
(* The invariant.                                                          *)

LEMMA InitInv == Init => IInv
<1>1. SUFFICES ASSUME Init PROVE IInv
  OBVIOUS
<1>2. adrs = {} /\ \A p : RowsOf(p) = {} /\ SeqsOf(p) = {} /\ Size(p) = 0
  BY <1>1, FS_EmptySet DEF Init, RowsOf, SeqsOf, Size
<1>3. TypeOK
  BY <1>1, InitTypeOK
<1>4. Finite /\ Distinct
  BY <1>2, FS_EmptySet DEF Finite, Distinct
<1>5. Gapless
  BY <1>2 DEF Gapless, Size
<1>6. Exclusive /\ Snapshots /\ Numbered /\ Told
  BY <1>1 DEF Init, NoCall, Exclusive, Snapshots, Numbered, Told
<1>7. Listed /\ ListingIsComplete
  BY <1>1, <1>2 DEF Init, Listed, ListingIsComplete
<1>8. QED
  BY <1>3, <1>4, <1>5, <1>6, <1>7 DEF IInv

LEMMA StepInv == IInv /\ [Next]_vars => IInv'
<1>1. SUFFICES ASSUME IInv, [Next]_vars PROVE IInv'
  OBVIOUS
<1>2. ASSUME NEW s \in Sessions, CallTool(s) \/ Complete(s) \/ NextText(s) \/ NextMarker(s)
      PROVE  IInv'
  BY <1>1, <1>2, CallersTypeOK, CallersStep, TableStays DEF IInv, Locks
<1>3. ASSUME NEW c \in Creators, Create(c) \/ Fail(c) PROVE IInv'
  <2>1. TypeOK'
    BY <1>1, <1>3, CreateTypeOK DEF IInv
  <2>2. CASE Commit(c)
    BY <1>1, <2>1, <2>2, CommitStep DEF IInv, Locks
  <2>3. CASE AskLock(c) \/ GetLock(c) \/ InsertNext(c) \/ Fail(c)
    <3>1. SameTable /\ Locks'
      BY <1>1, <2>3, AskLockStep, GetLockStep, InsertStep, FailStep
    <3>2. QED
      BY <1>1, <2>1, <3>1, TableStays DEF IInv, Locks
  <2>4. QED
    BY <1>3, <2>2, <2>3 DEF Create
<1>4. ASSUME NEW p \in Projects, FirstPage(p) \/ NextPage(p) PROVE IInv'
  <2>1. /\ Listed' /\ ListingIsComplete' /\ UNCHANGED <<adrs, tx, lock, called, scan, told>>
        /\ listing' \in [Projects -> [page : {"first", "next", "over"},
                                       sent : SUBSET Rows, cursor : Nat]]
    BY <1>1, <1>4, ListingStep
  <2>2. TypeOK'
    BY <1>1, <2>1 DEF IInv, TypeOK
  <2>3. \A x : RowsOf(x)' = RowsOf(x) /\ SeqsOf(x)' = SeqsOf(x) /\ Size(x)' = Size(x)
    BY <2>1 DEF RowsOf, SeqsOf, Size
  <2>4. Finite' /\ Distinct' /\ Told' /\ Exclusive'
    BY <1>1, <2>1 DEF IInv, Finite, Distinct, Told, Exclusive, Project
  <2>5. Gapless' /\ Snapshots' /\ Numbered'
    BY <1>1, <2>1, <2>3 DEF IInv, Gapless, Size, Snapshots, Numbered, Project
  <2>6. QED
    BY <2>1, <2>2, <2>4, <2>5 DEF IInv
<1>5. CASE UNCHANGED vars
  <2>1. SameTable /\ UNCHANGED <<tx, lock, called, scan>>
    BY <1>5 DEF vars, SameTable
  <2>2. TypeOK' /\ Exclusive'
    BY <1>1, <2>1 DEF IInv, TypeOK, SameTable, Exclusive, Project
  <2>3. Snapshots' /\ Numbered'
    BY <1>1, <2>1, TableStays DEF IInv, Snapshots, Numbered, Project
  <2>4. QED
    BY <1>1, <2>1, <2>2, <2>3, TableStays DEF IInv
<1>6. QED
  BY <1>1, <1>2, <1>3, <1>4, <1>5 DEF Next

LEMMA Inductive == Spec => []IInv
BY InitInv, StepInv, PTL DEF Spec

(* Calls, rows, locks and pages have their types.                          *)
THEOREM TypeCorrect == Spec => []TypeOK
<1>1. IInv => TypeOK
  BY DEF IInv
<1>2. QED
  BY <1>1, Inductive, PTL

(* CreateWithNextSequence: the decisions of a project are numbered 1, 2,   *)
(* ... without a gap and without a number given twice.                     *)
THEOREM NumberedWithoutGaps == Spec => []Gapless
<1>1. IInv => Gapless
  BY DEF IInv
<1>2. QED
  BY <1>1, Inductive, PTL

(* The number CreateWithNextSequence returns is in the table, and is that  *)
(* of no other decision.                                                   *)
THEOREM ToldTheTruth == Spec => []ToldIsRecorded
<1>1. IInv => ToldIsRecorded
  BY DEF IInv, Told, Distinct, ToldIsRecorded
<1>2. QED
  BY <1>1, Inductive, PTL

(* ListADRsByProjectAfter: paging beside running creates misses nothing.   *)
THEOREM ListedCompletely == Spec => []ListingIsComplete
<1>1. IInv => ListingIsComplete
  BY DEF IInv
<1>2. QED
  BY <1>1, Inductive, PTL

-----------------------------------------------------------------------------
(* The timeline.                                                           *)

(* A row is the one chosen for its number.                                 *)
LEMMA ChosenRow ==
  ASSUME NEW A, NEW r \in A, \A x \in A : x.seq = r.seq => x = r
  PROVE  (CHOOSE x \in A : x.seq = r.seq) = r
OBVIOUS

(* The numbers of a project lead to its rows.                              *)
LEMMA RowOfNumber ==
  ASSUME IInv, NEW p \in Projects, NEW n \in 1..Size(p)
  PROVE  \E r \in RowsOf(p) : r.seq = n /\ \A x \in RowsOf(p) : x.seq = n => x = r
<1>1. n \in SeqsOf(p)
  BY DEF IInv, Gapless, Size
<1>2. PICK r \in RowsOf(p) : r.seq = n
  BY <1>1 DEF SeqsOf
<1>3. QED
  BY <1>2 DEF IInv, Distinct, RowsOf

LEMMA InitTimeline == Init => Timeline!Init
<1>1. SUFFICES ASSUME Init PROVE Timeline!Init
  OBVIOUS
<1>2. \A p : Cardinality(RowsOf(p)) = 0
  BY <1>1, FS_EmptySet DEF Init, RowsOf
<1>3. \A p \in Projects : [n \in 1..Cardinality(RowsOf(p)) |-> Nth(p, n)] = <<>>
  <2>1. 1..0 = {}
    OBVIOUS
  <2>2. \A p \in Projects : 1..Cardinality(RowsOf(p)) = {}
    BY <1>2, <2>1
  <2>3. QED
    BY <2>2
<1>4. QED
  BY <1>3 DEF Timeline!Init, TimelineOf

(* The commit is the append of its row; nothing before it changes.         *)
LEMMA CommitRecords ==
  ASSUME IInv, NEW c \in Creators, Commit(c)
  PROVE  Timeline!Next
<1> DEFINE q == Project(c)
           e == EntryOf(Row(c))
           line(p) == [n \in 1..Size(p) |-> Nth(p, n)]
<1>1. /\ Row(c) \in Rows /\ Row(c).seq = Size(q) + 1
      /\ RowsOf(q)' = RowsOf(q) \cup {Row(c)}
      /\ Size(q)' = Size(q) + 1
      /\ \A p : p # q => RowsOf(p)' = RowsOf(p) /\ Size(p)' = Size(p)
  BY CommitAddsNext
<1>2. q \in Projects /\ Size(q) \in Nat /\ SeqsOf(q) = 1..Size(q)
  BY ProjectOfCreator, RowsAreFinite DEF IInv, Gapless, Size
<1>3. e \in Entries
  BY <1>1 DEF Rows, Entries, EntryOf
<1>4. ASSUME NEW p, p # q PROVE line(p)' = line(p)
  <2>1. RowsOf(p)' = RowsOf(p) /\ Size(p)' = Size(p)
    BY <1>1, <1>4
  <2>2. \A n : Nth(p, n)' = Nth(p, n)
    BY <2>1 DEF Nth, EntryOf
  <2>3. QED
    BY <2>1, <2>2
<1>5. \A r \in RowsOf(q) : r.seq # Row(c).seq
  <2>1. \A r \in RowsOf(q) : r.seq \in 1..Size(q)
    BY <1>2 DEF SeqsOf
  <2>2. QED
    BY <1>1, <1>2, <2>1
<1>6. \A n \in 1..Size(q) : Nth(q, n)' = Nth(q, n)
  <2>1. SUFFICES ASSUME NEW n \in 1..Size(q)
                 PROVE  EntryOf(CHOOSE r \in RowsOf(q)' : r.seq = n) = Nth(q, n)
    BY DEF Nth, EntryOf, Project
  <2>2. PICK r \in RowsOf(q) : r.seq = n /\ \A x \in RowsOf(q) : x.seq = n => x = r
    BY <1>2, RowOfNumber
  <2>3. (CHOOSE x \in RowsOf(q) : x.seq = n) = r
    BY <2>2, ChosenRow
  <2>4. r \in RowsOf(q)' /\ \A x \in RowsOf(q)' : x.seq = r.seq => x = r
    BY <1>1, <1>5, <2>2
  <2>5. (CHOOSE x \in RowsOf(q)' : x.seq = n) = r
    BY <2>2, <2>4, ChosenRow
  <2>6. QED
    BY <2>3, <2>5 DEF Nth
<1>7. \A n : n = Size(q) + 1 => Nth(q, n)' = e
  <2>1. Row(c) \in RowsOf(q)' /\ \A x \in RowsOf(q)' : x.seq = Row(c).seq => x = Row(c)
    BY <1>1, <1>5
  <2>2. (CHOOSE x \in RowsOf(q)' : x.seq = Row(c).seq) = Row(c)
    BY <2>1, ChosenRow
  <2>3. \A n : Nth(q, n)' = EntryOf(CHOOSE x \in RowsOf(q)' : x.seq = n)
    BY DEF Nth, EntryOf, Project
  <2>4. QED
    BY <1>1, <2>2, <2>3
<1>8. line(q)' = Append(line(q), e)
  <2>1. line(q) \in Seq(Entries)
    <3>1. ASSUME NEW n \in 1..Size(q) PROVE Nth(q, n) \in Entries
      <4>1. PICK r \in RowsOf(q) : r.seq = n /\ \A x \in RowsOf(q) : x.seq = n => x = r
        BY <1>2, RowOfNumber
      <4>2. (CHOOSE x \in RowsOf(q) : x.seq = n) = r
        BY <4>1, ChosenRow
      <4>3. r \in Rows
        BY DEF IInv, TypeOK, RowsOf
      <4>4. QED
        BY <4>2, <4>3 DEF Nth, EntryOf, Entries, Rows
    <3>2. QED
      BY <1>2, <3>1
  <2>2. Len(line(q)) = Size(q)
    BY <1>2
  <2>3. Append(line(q), e) = [n \in 1..(Size(q) + 1) |-> IF n = Size(q) + 1 THEN e ELSE Nth(q, n)]
    BY <1>2, <1>3, <2>1, <2>2
  <2>4. line(q)' = [n \in 1..(Size(q) + 1) |-> Nth(q, n)']
    BY <1>1 DEF Project
  <2>5. \A n \in 1..(Size(q) + 1) : Nth(q, n)' = IF n = Size(q) + 1 THEN e ELSE Nth(q, n)
    BY <1>2, <1>6, <1>7
  <2>6. QED
    BY <2>3, <2>4, <2>5
<1>9. TimelineOf = [p \in Projects |-> line(p)] /\ TimelineOf' = [p \in Projects |-> line(p)']
  BY DEF TimelineOf, Size
<1>10. TimelineOf' = [TimelineOf EXCEPT ![q] = Append(@, e)]
  BY <1>2, <1>4, <1>8, <1>9
<1>11. QED
  BY <1>2, <1>3, <1>10 DEF Timeline!Next, Timeline!Record

(* No other step is seen in the timeline.                                  *)
LEMMA StepTimeline ==
  ASSUME IInv, [Next]_vars
  PROVE  [Timeline!Next]_TimelineOf
<1>1. CASE UNCHANGED adrs
  BY <1>1 DEF TimelineOf, Nth, EntryOf, RowsOf
<1>2. ASSUME NEW c \in Creators, Commit(c) PROVE Timeline!Next
  BY <1>2, CommitRecords
<1>3. (\E c \in Creators : Commit(c)) \/ UNCHANGED adrs
  <2>1. ASSUME NEW s \in Sessions, CallTool(s) \/ Complete(s) \/ NextText(s) \/ NextMarker(s)
        PROVE  UNCHANGED adrs
    BY <2>1, CallersStep DEF SameTable
  <2>2. ASSUME NEW c \in Creators, Create(c) \/ Fail(c)
        PROVE  Commit(c) \/ UNCHANGED adrs
    BY <2>2, AskLockStep, GetLockStep, InsertStep, FailStep DEF Create, SameTable
  <2>3. ASSUME NEW p \in Projects, FirstPage(p) \/ NextPage(p) PROVE UNCHANGED adrs
    BY <2>3, ListingStep
  <2>4. QED
    BY <2>1, <2>2, <2>3 DEF Next, vars
<1>4. QED
  BY <1>1, <1>2, <1>3

(* CreateWithNextSequence as docs/adrs/0003 sees it: the transactions of   *)
(* all creators, however they overlap, fail and lose replies, append to    *)
(* the project's timeline and change nothing that is in it.                *)
THEOREM AppendOnly == Spec => ImplementsTimeline
<1>1. Init => Timeline!Init
  BY InitTimeline
<1>2. IInv /\ [Next]_vars => [Timeline!Next]_TimelineOf
  BY StepTimeline
<1>3. QED
  BY <1>1, <1>2, Inductive, PTL DEF Spec, ImplementsTimeline, Timeline!Spec
=============================================================================
