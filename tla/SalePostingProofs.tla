------------------------- MODULE SalePostingProofs --------------------------
(***************************************************************************)
(* Proofs about SalePosting, for any number of Ledger agents, any orders   *)
(* and any entries of other producers, well formed or not: the two tables  *)
(* implement the journal of Journal.tla, an entry is posted and reported   *)
(* once, and what is announced is in the books.                            *)
(***************************************************************************)
EXTENDS SalePosting, SequenceTheorems, TLAPS

-----------------------------------------------------------------------------
(* The inductive invariant.                                                *)

WorkerType ==
    /\ wpc \in [Worker -> {"down", "idle", "dispatch", "insert", "commit",
                           "record", "announce", "reject"}]
    /\ msg = [w \in Worker |-> msg[w]]
    /\ IsABag(log)

Posted(f) == f.subject = "ledger.posted"

\* Row h of journal_entry is the entry with this id and tenant.
IsHead(h, id, tenant) == h.id = id /\ h.tenant = tenant

OneHead == \A h, k \in heads : h.id = k.id => h = k

\* No line without the head of its entry: they commit together.
LinesHaveHeads == \A l \in lines : \E h \in heads : h.id = l.entry

\* A transaction that holds a key is alone with it, and no row has it yet.
ClaimInv ==
    \A w \in Worker : wpc[w] = "commit" =>
        /\ ~present(msg[w])
        /\ \A v \in Worker \ {w} : wpc[v] = "commit" => msg[v].id # msg[w].id

\* Only what balances gets past Dispatch.
SoundInv ==
    \A w \in Worker : wpc[w] \in {"insert", "commit"} => is_balanced(rows(msg[w]))

\* A reported entry is in the books and was reported once.
PostedInv ==
    \A f \in DOMAIN log : Posted(f) =>
        log[f] = 1 /\ \E h \in heads : IsHead(h, f.id, f.tenant)

\* A worker that has committed has its entry in the books, and until it records
\* the fact nobody has, nor is about to.
RecordInv ==
    \A w \in Worker :
        /\ wpc[w] \in {"record", "announce"} =>
               \E h \in heads : IsHead(h, msg[w].id, msg[w].tenant)
        /\ wpc[w] = "record" =>
               /\ \A f \in DOMAIN log : Posted(f) => f.id # msg[w].id
               /\ \A v \in Worker \ {w} : wpc[v] = "record" => msg[v].id # msg[w].id
        /\ wpc[w] = "announce" =>
               fact("ledger.posted", msg[w].tenant, msg[w].id) \in DOMAIN log

AnnouncedInv == \A f \in announced : Posted(f) /\ f \in DOMAIN log

BookInv == OneHead /\ LinesHaveHeads /\ BooksBalance
SaleInv == /\ WorkerType /\ BookInv /\ ClaimInv /\ SoundInv
           /\ PostedInv /\ RecordInv /\ AnnouncedInv

-----------------------------------------------------------------------------
(* The event log and the books.                                            *)

\* One more event: its count grows by one, the others' stay (record_event).
LEMMA OneMore ==
    ASSUME WorkerType, NEW f, Record(f)
    PROVE  /\ IsABag(log')
           /\ DOMAIN log' = DOMAIN log \cup {f}
           /\ log'[f] = IF f \in DOMAIN log THEN log[f] + 1 ELSE 1
           /\ \A g \in DOMAIN log : g # f => log'[g] = log[g]
BY DEF WorkerType, Record, IsABag, SetToBag, (+)

\* A step that leaves the books and the announcements alone, reports no posting,
\* and brings no worker past Dispatch but with an entry that balances.
LEMMA Quiet ==
    ASSUME SaleInv, UNCHANGED <<bookVars, announced>>,
           \/ log' = log
           \/ \E f : ~Posted(f) /\ Record(f),
           wpc' \in [Worker -> {"down", "idle", "dispatch", "insert", "commit",
                                "record", "announce", "reject"}],
           msg' = [w \in Worker |-> msg'[w]],
           \A v \in Worker :
               \/ wpc'[v] = wpc[v] /\ msg'[v] = msg[v]
               \/ wpc'[v] \in {"down", "idle", "dispatch", "reject"}
               \/ wpc'[v] = "insert" /\ is_balanced(rows(msg'[v]))
    PROVE  SaleInv'
<1>1. /\ IsABag(log')
      /\ \A f : Posted(f) => f \in DOMAIN log' <=> f \in DOMAIN log
      /\ \A f \in DOMAIN log : Posted(f) => log'[f] = log[f]
  <2>1. CASE log' = log
    BY <2>1 DEF SaleInv, WorkerType
  <2>2. CASE \E f : ~Posted(f) /\ Record(f)
    <3>1. PICK f : ~Posted(f) /\ Record(f)
      BY <2>2
    <3>2. /\ IsABag(log')
          /\ DOMAIN log' = DOMAIN log \cup {f}
          /\ \A g \in DOMAIN log : g # f => log'[g] = log[g]
      BY <3>1, OneMore DEF SaleInv
    <3> QED BY <3>1, <3>2
  <2> QED BY <2>1, <2>2
<1>2. WorkerType'
  BY <1>1 DEF WorkerType
<1>3. BookInv'
  BY DEF SaleInv, BookInv, OneHead, LinesHaveHeads, BooksBalance, book, bookVars
<1>4. ClaimInv'
  BY DEF SaleInv, ClaimInv, present, bookVars
<1>5. SoundInv'
  BY DEF SaleInv, SoundInv
<1>6. PostedInv'
  BY <1>1 DEF SaleInv, PostedInv, bookVars
<1>7. RecordInv'
  BY <1>1 DEF SaleInv, RecordInv, bookVars, fact, Posted
<1>8. AnnouncedInv'
  BY <1>1 DEF SaleInv, AnnouncedInv
<1> QED BY <1>2, <1>3, <1>4, <1>5, <1>6, <1>7, <1>8 DEF SaleInv

\* The books after a commit: the new head with exactly its lines, and every other
\* entry as it was (insert_if_absent).
LEMMA CommitBooks ==
    ASSUME SaleInv, NEW w \in Worker, Commit(w)
    PROVE  LET h == head(msg[w]) IN
           /\ heads' = heads \cup {h}
           /\ h.id = msg[w].id /\ h.tenant = msg[w].tenant
           /\ \A k \in heads : k.id # h.id
           /\ \A k \in heads : {l \in lines' : l.entry = k.id}
                             = {l \in lines : l.entry = k.id}
           /\ {l \in lines' : l.entry = h.id} = rows(msg[w])
           /\ is_balanced(rows(msg[w]))
           /\ h.total = total(rows(msg[w]), "debit")
<1> DEFINE h == head(msg[w])
<1>1. heads' = heads \cup {h} /\ lines' = lines \cup rows(msg[w])
  BY DEF Commit
<1>2. /\ h.id = msg[w].id /\ h.tenant = msg[w].tenant
      /\ h.total = total(rows(msg[w]), "debit")
  BY DEF head
<1>3. \A k \in heads : k.id # h.id
  BY <1>2 DEF Commit, SaleInv, ClaimInv, present
<1>4. \A l \in rows(msg[w]) : l.entry = h.id
  BY <1>2 DEF rows
<1>5. \A l \in lines : l.entry # h.id
  BY <1>3 DEF SaleInv, BookInv, LinesHaveHeads
<1>6. is_balanced(rows(msg[w]))
  BY DEF Commit, SaleInv, SoundInv
<1> HIDE DEF h
<1>7. \A k \in heads : {l \in lines' : l.entry = k.id} = {l \in lines : l.entry = k.id}
  BY <1>1, <1>3, <1>4
<1>8. {l \in lines' : l.entry = h.id} = rows(msg[w])
  BY <1>1, <1>4, <1>5
<1> QED BY <1>1, <1>2, <1>3, <1>6, <1>7, <1>8 DEF h

-----------------------------------------------------------------------------
(* Preservation.                                                           *)

\* A transaction gets its key: nobody holds it and no row has it (InsertHead).
LEMMA InsertKeeps ==
    ASSUME SaleInv, NEW w \in Worker, InsertHead(w)
    PROVE  SaleInv'
<1>1. CASE present(msg[w])
  <2>1. UNCHANGED <<bookVars, announced>> /\ log' = log
    BY DEF InsertHead
  <2>2. Return(w)
    BY <1>1 DEF InsertHead
  <2>3. /\ wpc' \in [Worker -> {"down", "idle", "dispatch", "insert", "commit",
                                "record", "announce", "reject"}]
        /\ msg' = [v \in Worker |-> msg'[v]]
        /\ \A v \in Worker : \/ wpc'[v] = wpc[v] /\ msg'[v] = msg[v]
                             \/ wpc'[v] = "idle"
    BY <2>2 DEF SaleInv, WorkerType, Return, Goto
  <2> QED BY <2>1, <2>3, Quiet
<1>2. CASE ~present(msg[w])
  <2>1. /\ wpc[w] = "insert" /\ ~claimed(w)
        /\ wpc' = [wpc EXCEPT ![w] = "commit"]
        /\ UNCHANGED <<msg, heads, lines, log, announced>>
    BY <1>2 DEF InsertHead, Goto, bookVars
  <2>2. WorkerType'
    BY <2>1 DEF SaleInv, WorkerType
  <2>3. \A v \in Worker : IF v = w THEN wpc'[v] = "commit" ELSE wpc'[v] = wpc[v]
    BY <2>1 DEF SaleInv, WorkerType
  <2>4. BookInv'
    BY <2>1 DEF SaleInv, BookInv, OneHead, LinesHaveHeads, BooksBalance, book
  <2>5. ClaimInv'
    BY <1>2, <2>1, <2>3 DEF SaleInv, ClaimInv, present, claimed
  <2>6. SoundInv'
    BY <2>1, <2>3 DEF SaleInv, SoundInv
  <2>7. PostedInv' /\ AnnouncedInv'
    BY <2>1 DEF SaleInv, PostedInv, AnnouncedInv
  <2>8. RecordInv'
    BY <2>1, <2>3 DEF SaleInv, RecordInv
  <2> QED BY <2>2, <2>4, <2>5, <2>6, <2>7, <2>8 DEF SaleInv
<1> QED BY <1>1, <1>2

\* The commit: a new head, whose key was this transaction's alone.
LEMMA CommitKeeps ==
    ASSUME SaleInv, NEW w \in Worker, Commit(w)
    PROVE  SaleInv'
<1> DEFINE h == head(msg[w])
<1>1. /\ heads' = heads \cup {h}
      /\ h.id = msg[w].id /\ h.tenant = msg[w].tenant
      /\ \A k \in heads : k.id # h.id
      /\ \A k \in heads : {l \in lines' : l.entry = k.id}
                        = {l \in lines : l.entry = k.id}
      /\ {l \in lines' : l.entry = h.id} = rows(msg[w])
      /\ is_balanced(rows(msg[w]))
      /\ h.total = total(rows(msg[w]), "debit")
  BY CommitBooks
<1> HIDE DEF h
<1>2. /\ wpc[w] = "commit" /\ wpc' = [wpc EXCEPT ![w] = "record"]
      /\ lines' = lines \cup rows(msg[w])
      /\ UNCHANGED <<msg, log, announced>>
  BY DEF Commit, Goto
<1>3. \A v \in Worker : IF v = w THEN wpc'[v] = "record" ELSE wpc'[v] = wpc[v]
  BY <1>2 DEF SaleInv, WorkerType
<1>4. WorkerType'
  BY <1>2 DEF SaleInv, WorkerType
<1>5. BookInv'
  <2>1. OneHead'
    BY <1>1 DEF SaleInv, BookInv, OneHead
  <2>2. LinesHaveHeads'
    BY <1>1, <1>2 DEF SaleInv, BookInv, LinesHaveHeads, rows
  <2>3. BooksBalance'
    BY <1>1 DEF SaleInv, BookInv, BooksBalance, book
  <2> QED BY <2>1, <2>2, <2>3 DEF BookInv
<1>6. ClaimInv'
  BY <1>1, <1>2, <1>3 DEF SaleInv, ClaimInv, present
<1>7. SoundInv'
  BY <1>2, <1>3 DEF SaleInv, SoundInv
<1>8. PostedInv' /\ AnnouncedInv'
  BY <1>1, <1>2 DEF SaleInv, PostedInv, AnnouncedInv
<1>9. RecordInv'
  <2>1. \A f \in DOMAIN log : Posted(f) => f.id # msg[w].id
    BY <1>1 DEF SaleInv, PostedInv, IsHead
  <2>2. \A v \in Worker : wpc[v] = "record" => msg[v].id # msg[w].id
    BY <1>1 DEF SaleInv, RecordInv, IsHead
  <2> QED BY <1>1, <1>2, <1>3, <2>1, <2>2 DEF SaleInv, RecordInv, IsHead
<1> QED BY <1>4, <1>5, <1>6, <1>7, <1>8, <1>9 DEF SaleInv

\* The worker that committed is the one that reports it (RecordPosted).
LEMMA RecordKeeps ==
    ASSUME SaleInv, NEW w \in Worker, RecordPosted(w)
    PROVE  SaleInv'
<1> DEFINE f == fact("ledger.posted", msg[w].tenant, msg[w].id)
<1>1. /\ Posted(f) /\ f.id = msg[w].id /\ f.tenant = msg[w].tenant
  BY DEF fact, Posted
<1>2. /\ wpc[w] = "record" /\ wpc' = [wpc EXCEPT ![w] = "announce"]
      /\ UNCHANGED <<msg, heads, lines, announced>>
      /\ Record(f)
  BY DEF RecordPosted, Goto, bookVars
<1> HIDE DEF f
<1>3. f \notin DOMAIN log
  BY <1>1, <1>2 DEF SaleInv, RecordInv
<1>4. /\ IsABag(log') /\ DOMAIN log' = DOMAIN log \cup {f} /\ log'[f] = 1
      /\ \A g \in DOMAIN log : log'[g] = log[g]
  BY <1>2, <1>3, OneMore DEF SaleInv
<1>5. \A v \in Worker : IF v = w THEN wpc'[v] = "announce" ELSE wpc'[v] = wpc[v]
  BY <1>2 DEF SaleInv, WorkerType
<1>6. WorkerType'
  BY <1>2, <1>4 DEF SaleInv, WorkerType
<1>7. BookInv'
  BY <1>2 DEF SaleInv, BookInv, OneHead, LinesHaveHeads, BooksBalance, book
<1>8. ClaimInv' /\ SoundInv'
  BY <1>2, <1>5 DEF SaleInv, ClaimInv, SoundInv, present
<1>9. PostedInv'
  BY <1>1, <1>2, <1>4 DEF SaleInv, PostedInv, RecordInv
<1>10. AnnouncedInv'
  BY <1>2, <1>4 DEF SaleInv, AnnouncedInv
<1>11. RecordInv'
  <2>1. \A v \in Worker \ {w} : wpc[v] = "record" => msg[v].id # f.id
    BY <1>1, <1>2 DEF SaleInv, RecordInv
  <2>2. fact("ledger.posted", msg[w].tenant, msg[w].id) \in DOMAIN log'
    BY <1>4 DEF f
  <2> QED BY <1>2, <1>4, <1>5, <2>1, <2>2 DEF SaleInv, RecordInv
<1> QED BY <1>6, <1>7, <1>8, <1>9, <1>10, <1>11 DEF SaleInv

\* ... and then announces what the log holds (PublishPosted).
LEMMA AnnounceKeeps ==
    ASSUME SaleInv, NEW w \in Worker, PublishPosted(w)
    PROVE  SaleInv'
<1>1. /\ announced' = announced \cup {fact("ledger.posted", msg[w].tenant, msg[w].id)}
      /\ wpc[w] = "announce"
      /\ Return(w) /\ UNCHANGED <<heads, lines, log>>
  BY DEF PublishPosted, bookVars
<1>2. \A v \in Worker : \/ wpc'[v] = wpc[v] /\ msg'[v] = msg[v]
                        \/ wpc'[v] = "idle"
  BY <1>1 DEF SaleInv, WorkerType, Return, Goto
<1>3. WorkerType'
  BY <1>1 DEF SaleInv, WorkerType, Return, Goto
<1>4. BookInv' /\ PostedInv'
  BY <1>1 DEF SaleInv, BookInv, OneHead, LinesHaveHeads, BooksBalance, book, PostedInv
<1>5. ClaimInv' /\ SoundInv' /\ RecordInv'
  BY <1>1, <1>2 DEF SaleInv, ClaimInv, SoundInv, RecordInv, present
<1>6. AnnouncedInv'
  BY <1>1 DEF SaleInv, RecordInv, AnnouncedInv, fact, Posted
<1> QED BY <1>3, <1>4, <1>5, <1>6 DEF SaleInv

\* A worker that takes a message, dismisses one, dies or restarts (Take, Dispatch,
\* RecordRejected, CrashLedger, Restart).
LEMMA WorkerKeeps ==
    ASSUME SaleInv, NEW w \in Worker,
           Take(w) \/ Dispatch(w) \/ RecordRejected(w) \/ CrashLedger(w) \/ Restart(w)
    PROVE  SaleInv'
<1>1. UNCHANGED <<bookVars, announced>>
  BY DEF Take, Dispatch, RecordRejected, CrashLedger, Restart
<1>2. log' = log \/ \E f : ~Posted(f) /\ Record(f)
  <2>1. CASE RecordRejected(w)
    <3> DEFINE f == fact("ledger.rejected", msg[w].tenant, msg[w].id)
    <3>1. ~Posted(f)
      BY DEF fact, Posted
    <3> QED BY <2>1, <3>1 DEF RecordRejected
  <2> QED BY <2>1 DEF Take, Dispatch, CrashLedger, Restart
<1>3. PICK p \in {"down", "idle", "dispatch", "reject", "insert"} : \E e :
         /\ wpc' = [wpc EXCEPT ![w] = p] /\ msg' = [msg EXCEPT ![w] = e]
         /\ p = "insert" => is_balanced(rows(e))
  <2>0. msg = [msg EXCEPT ![w] = msg[w]]
    BY DEF SaleInv, WorkerType
  <2>1. CASE Take(w)
    BY <2>1 DEF Take, Goto
  <2>2. CASE Dispatch(w)
    <3>1. CASE Return(w)
      BY <3>1 DEF Return, Goto
    <3>2. CASE /\ Goto(w, IF is_balanced(rows(msg[w])) THEN "insert" ELSE "reject")
               /\ UNCHANGED msg
      BY <2>0, <3>2 DEF Goto
    <3> QED BY <2>2, <3>1, <3>2 DEF Dispatch
  <2>3. CASE RecordRejected(w)
    BY <2>3 DEF RecordRejected, Return, Goto
  <2>4. CASE CrashLedger(w)
    BY <2>4 DEF CrashLedger, Goto
  <2>5. CASE Restart(w)
    BY <2>0, <2>5 DEF Restart, Goto
  <2> QED BY <2>1, <2>2, <2>3, <2>4, <2>5
<1>4. /\ wpc' \in [Worker -> {"down", "idle", "dispatch", "insert", "commit",
                              "record", "announce", "reject"}]
      /\ msg' = [v \in Worker |-> msg'[v]]
      /\ \A v \in Worker :
             \/ wpc'[v] = wpc[v] /\ msg'[v] = msg[v]
             \/ wpc'[v] \in {"down", "idle", "dispatch", "reject"}
             \/ wpc'[v] = "insert" /\ is_balanced(rows(msg'[v]))
  BY <1>3 DEF SaleInv, WorkerType
<1> QED BY <1>1, <1>2, <1>4, Quiet

\* The Forge agent, other producers, and the end of the bounds touch no worker's
\* call and no table of the Ledger.
LEMMA OthersKeep ==
    ASSUME SaleInv,
           \/ \E o \in Orders : WorkOrderArrives(o)
           \/ \E e \in Foreign : ForeignEntry(e)
           \/ ForgeStep \/ CrashForge \/ UNCHANGED vars
    PROVE  SaleInv'
<1>1. UNCHANGED <<wpc, msg, bookVars, announced>>
  BY DEF WorkOrderArrives, ForeignEntry, ForgeStep, RecordCompleted, PublishCompleted,
         RecordEntry, PublishEntry, CrashForge, vars, workerVars
<1>2. log' = log \/ \E f : ~Posted(f) /\ Record(f)
  <2>1. CASE RecordCompleted
    <3> DEFINE f == fact("forge.completed", order.tenant, order.id)
    <3>1. ~Posted(f)
      BY DEF fact, Posted
    <3> QED BY <2>1, <3>1 DEF RecordCompleted
  <2>2. CASE RecordEntry
    <3> DEFINE f == fact("ledger.entry", order.tenant, ledger_entry_id(order))
    <3>1. ~Posted(f)
      BY DEF fact, Posted
    <3> QED BY <2>2, <3>1 DEF RecordEntry
  <2> QED BY <2>1, <2>2 DEF WorkOrderArrives, ForeignEntry, ForgeStep,
                            PublishCompleted, PublishEntry, CrashForge, vars
<1> QED BY <1>1, <1>2, Quiet DEF SaleInv, WorkerType

\* Every step keeps the invariant.
LEMMA SaleNext == SaleInv /\ [Next]_vars => SaleInv'
BY InsertKeeps, CommitKeeps, RecordKeeps, AnnounceKeeps, WorkerKeeps, OthersKeep
   DEF Next, LedgerStep, Quiescent

\* The invariant holds in every state.
LEMMA SaleAlways == Spec => []SaleInv
<1>1. Init => SaleInv
  BY DEF Init, SaleInv, WorkerType, BookInv, OneHead, LinesHaveHeads, BooksBalance,
         ClaimInv, SoundInv, PostedInv, RecordInv, AnnouncedInv, IsABag, EmptyBag,
         SetToBag
<1> QED BY <1>1, SaleNext, PTL DEF Spec

-----------------------------------------------------------------------------
\* Two agents that both receive an entry, or one that receives it again, post it
\* and report it once (ON CONFLICT (entry_id) DO NOTHING, status "duplicate").
THEOREM PostedAndReportedOnce == Spec => []PostedOnce
<1>1. SaleInv => PostedOnce
  BY DEF SaleInv, BookInv, OneHead, PostedInv, Posted, PostedOnce, BagToSet
<1> QED BY <1>1, SaleAlways, PTL

\* Whoever sees a ledger.posted finds the event in the log and the entry in that
\* tenant's books: emit comes after the commit (LedgerAgent.handle).
THEOREM AnnouncedIsBooked == Spec => []AnnouncedIsInBooks
<1>1. SaleInv => AnnouncedIsInBooks
  BY DEF SaleInv, AnnouncedInv, PostedInv, IsHead, AnnouncedIsInBooks, BagIn, BagToSet
<1> QED BY <1>1, SaleAlways, PTL

\* The books balance at every moment, whichever process dies when: every entry has
\* all its lines, debits and credits equal to its total (post, insert_if_absent).
THEOREM BooksAlwaysBalance == Spec => []BooksBalance
<1>1. SaleInv => BooksBalance
  BY DEF SaleInv, BookInv
<1> QED BY <1>1, SaleAlways, PTL

\* The two tables of the Ledger implement the journal: whole, balanced entries, each
\* posted once under its id, never changed and never removed.
THEOREM TablesImplementJournal == Spec => ImplementsJournal
<1> DEFINE entries == {book(h) : h \in heads}
<1>1. Init => Books!Init
  BY DEF Init, Books!Init
<1>2. SaleInv /\ [Next]_vars => [Books!Next]_entries
  <2> SUFFICES ASSUME SaleInv, [Next]_vars
               PROVE  Books!Next \/ entries' = entries
    OBVIOUS
  <2>1. ASSUME NEW w \in Worker, Commit(w)
        PROVE  Books!Next
    <3> DEFINE h == head(msg[w])
               e == [id |-> h.id, tenant |-> h.tenant, lines |-> rows(msg[w])]
    <3>1. /\ heads' = heads \cup {h}
          /\ \A k \in heads : k.id # h.id
          /\ \A k \in heads : {l \in lines' : l.entry = k.id}
                            = {l \in lines : l.entry = k.id}
          /\ {l \in lines' : l.entry = h.id} = rows(msg[w])
          /\ is_balanced(rows(msg[w]))
      BY <2>1, CommitBooks
    <3> HIDE DEF h
    <3>2. entries' = entries \cup {e}
      <4> DEFINE after(k) == [id |-> k.id, tenant |-> k.tenant,
                              lines |-> {l \in lines' : l.entry = k.id}]
      <4>1. entries' = {after(k) : k \in heads'}
        BY DEF book
      <4>2. \A k \in heads : after(k) = book(k)
        BY <3>1, Zenon DEF book
      <4>3. after(h) = e
        BY <3>1, Zenon
      <4> HIDE DEF after, e
      <4> QED BY <3>1, <4>1, <4>2, <4>3
    <3>3. \A f \in entries : f.id # e.id
      BY <3>1 DEF book
    <3>4. is_balanced(e.lines)
      BY <3>1
    <3> QED BY <3>2, <3>3, <3>4 DEF Books!Next, Books!Post
  <2>2. CASE UNCHANGED bookVars
    BY <2>2 DEF book, bookVars
  <2>3. UNCHANGED bookVars \/ \E w \in Worker : Commit(w)
    BY DEF Next, WorkOrderArrives, ForeignEntry, ForgeStep, RecordCompleted,
           PublishCompleted, RecordEntry, PublishEntry, CrashForge, Quiescent,
           LedgerStep, Take, Dispatch, InsertHead, RecordPosted, PublishPosted,
           RecordRejected, Restart, CrashLedger, vars
  <2> QED BY <2>1, <2>2, <2>3
<1> QED BY <1>1, <1>2, SaleAlways, PTL DEF Spec, ImplementsJournal, Books!Spec

-----------------------------------------------------------------------------
(* Whose duplicate it is.  insert_if_absent keys on entry_id alone, and    *)
(* ledger_entry_id joins tenant and work order with a colon.               *)

\* What the Ledger agents may be sent.
Messages == Foreign \cup {ledger_entry(o) : o \in Orders}

\* Tenants without a colon in their name keep their orders' entries apart, whatever
\* the work order ids hold: the first colon ends the tenant (ledger_entry_id).
LEMMA FirstColon ==
    ASSUME NEW o \in Orders, NEW p \in Orders, ~colon(o.tenant), ~colon(p.tenant),
           ledger_entry_id(o) = ledger_entry_id(p)
    PROVE  o.tenant = p.tenant
<1> DEFINE s == o.tenant \o <<":">> \o o.id
           t == p.tenant \o <<":">> \o p.id
<1>1. /\ o.tenant \in Id /\ o.id \in Id /\ p.tenant \in Id /\ p.id \in Id
  BY InputAssumption DEF Order
<1>2. s = t
  BY DEF ledger_entry_id
<1>3. ASSUME NEW a \in Id, NEW b \in Id
      PROVE  LET c == a \o <<":">> \o b IN
             /\ \A i \in 1..Len(a) : c[i] = a[i]
             /\ c[Len(a) + 1] = ":"
  BY DEF Id
<1>4. /\ \A i \in 1..Len(o.tenant) : s[i] = o.tenant[i]
      /\ s[Len(o.tenant) + 1] = ":"
      /\ \A i \in 1..Len(p.tenant) : t[i] = p.tenant[i]
      /\ t[Len(p.tenant) + 1] = ":"
  BY <1>1, <1>3
<1> HIDE DEF s, t
<1>5. /\ Len(o.tenant) \in Nat /\ DOMAIN o.tenant = 1..Len(o.tenant)
      /\ Len(p.tenant) \in Nat /\ DOMAIN p.tenant = 1..Len(p.tenant)
  BY <1>1 DEF Id
<1>6. Len(o.tenant) = Len(p.tenant)
  <2>1. CASE Len(o.tenant) < Len(p.tenant)
    <3> DEFINE i == Len(o.tenant) + 1
    <3>1. i \in 1..Len(p.tenant)
      BY <1>5, <2>1
    <3>2. s[i] = ":" /\ t[i] = p.tenant[i]
      BY <1>4, <3>1
    <3> HIDE DEF i
    <3> QED BY <1>2, <1>5, <3>1, <3>2 DEF colon
  <2>2. CASE Len(p.tenant) < Len(o.tenant)
    <3> DEFINE i == Len(p.tenant) + 1
    <3>1. i \in 1..Len(o.tenant)
      BY <1>5, <2>2
    <3>2. t[i] = ":" /\ s[i] = o.tenant[i]
      BY <1>4, <3>1
    <3> HIDE DEF i
    <3> QED BY <1>2, <1>5, <3>1, <3>2 DEF colon
  <2> QED BY <1>5, <2>1, <2>2
<1>7. \A i \in 1..Len(o.tenant) : o.tenant[i] = p.tenant[i]
  BY <1>2, <1>4, <1>6
<1> QED BY <1>1, <1>6, <1>7, SeqEqual DEF Id

\* Messages come from the producers and keep their tenant up to the books.
OriginInv ==
    /\ fpc # "idle" => order \in Orders
    /\ inbox \in [Worker -> Seq(Messages)]
    /\ \A w \in Worker : wpc[w] \notin {"down", "idle"} => msg[w] \in Messages
    /\ \A h \in heads : \E e \in Messages : IsHead(h, e.id, e.tenant)

\* PUBLISH of a message leaves every socket with messages.
LEMMA PublishKeeps ==
    ASSUME inbox \in [Worker -> Seq(Messages)], NEW e \in Messages, Publish(e)
    PROVE  inbox' \in [Worker -> Seq(Messages)]
BY DEF Publish

\* Every step keeps the origin of messages and heads.
LEMMA OriginNext == WorkerType /\ OriginInv /\ [Next]_vars => OriginInv'
<1> SUFFICES ASSUME WorkerType, OriginInv, [Next]_vars PROVE OriginInv'
  OBVIOUS
<1>1. ASSUME NEW o \in Orders, WorkOrderArrives(o)
      PROVE  OriginInv'
  BY <1>1 DEF WorkOrderArrives, OriginInv, forgeVars, workerVars, bookVars
<1>2. ASSUME NEW e \in Foreign, ForeignEntry(e)
      PROVE  OriginInv'
  <2>1. inbox' \in [Worker -> Seq(Messages)]
    BY <1>2, PublishKeeps DEF ForeignEntry, OriginInv, Messages
  <2> QED BY <1>2, <2>1 DEF ForeignEntry, OriginInv, forgeVars, bookVars
<1>3. CASE RecordCompleted \/ PublishCompleted \/ RecordEntry \/ CrashForge
  BY <1>3 DEF RecordCompleted, PublishCompleted, RecordEntry, CrashForge, ForgeIdle,
              OriginInv, forgeVars, workerVars, bookVars
<1>4. CASE PublishEntry
  <2>1. inbox' \in [Worker -> Seq(Messages)]
    BY <1>4, PublishKeeps DEF PublishEntry, OriginInv, Messages
  <2> QED BY <1>4, <2>1 DEF PublishEntry, ForgeIdle, OriginInv, bookVars
<1>5. ASSUME NEW w \in Worker, Take(w)
      PROVE  OriginInv'
  <2>1. Head(inbox[w]) \in Messages /\ Tail(inbox[w]) \in Seq(Messages)
    BY <1>5 DEF Take, OriginInv
  <2> QED BY <1>5, <2>1 DEF Take, Goto, OriginInv, WorkerType, forgeVars, bookVars
<1>6. ASSUME NEW w \in Worker, Dispatch(w)
      PROVE  OriginInv'
  BY <1>6 DEF Dispatch, Goto, Return, OriginInv, WorkerType, forgeVars, bookVars
<1>7. ASSUME NEW w \in Worker, InsertHead(w)
      PROVE  OriginInv'
  BY <1>7 DEF InsertHead, Goto, Return, OriginInv, WorkerType, forgeVars, bookVars
<1>8. ASSUME NEW w \in Worker, Commit(w)
      PROVE  OriginInv'
  <2>1. IsHead(head(msg[w]), msg[w].id, msg[w].tenant)
    BY DEF head, IsHead
  <2>2. msg[w] \in Messages
    BY <1>8 DEF Commit, OriginInv
  <2>3. \A h \in heads' : \E e \in Messages : IsHead(h, e.id, e.tenant)
    BY <1>8, <2>1, <2>2 DEF Commit, OriginInv
  <2> QED BY <1>8, <2>3 DEF Commit, Goto, OriginInv, WorkerType, forgeVars
<1>9. ASSUME NEW w \in Worker,
             RecordPosted(w) \/ PublishPosted(w) \/ RecordRejected(w)
      PROVE  OriginInv'
  BY <1>9 DEF RecordPosted, PublishPosted, RecordRejected, Goto, Return, OriginInv,
              WorkerType, forgeVars, bookVars
<1>10. ASSUME NEW w \in Worker, CrashLedger(w)
       PROVE  OriginInv'
  <2>1. inbox' \in [Worker -> Seq(Messages)]
    BY <1>10 DEF CrashLedger, OriginInv
  <2> QED BY <1>10, <2>1 DEF CrashLedger, Goto, OriginInv, WorkerType, forgeVars,
                             bookVars
<1>11. ASSUME NEW w \in Worker, Restart(w)
       PROVE  OriginInv'
  BY <1>11 DEF Restart, Goto, OriginInv, WorkerType, forgeVars, bookVars
<1>12. CASE UNCHANGED vars
  BY <1>12 DEF vars, OriginInv, forgeVars, workerVars, bookVars
<1> QED BY <1>1, <1>2, <1>3, <1>4, <1>5, <1>6, <1>7, <1>8, <1>9, <1>10, <1>11, <1>12
        DEF Next, ForgeStep, LedgerStep, Quiescent

\* The step that discards an entry: a row with its id is there, and comes of a message.
LEMMA DiscardStep ==
    ASSUME WorkerType, OriginInv, [Next]_vars, NEW w \in Worker,
           wpc[w] = "insert", wpc'[w] = "idle"
    PROVE  \E h \in heads :
               /\ h.id = msg[w].id
               /\ \/ h.tenant = msg[w].tenant
                  \/ colon(h.tenant) \/ colon(msg[w].tenant)
                  \/ \E e \in Foreign : e.id = msg[w].id
<1>1. InsertHead(w) /\ present(msg[w])
  <2>1. PICK v \in Worker : LedgerStep(v) \/ CrashLedger(v)
    BY DEF Next, WorkOrderArrives, ForeignEntry, ForgeStep, RecordCompleted,
           PublishCompleted, RecordEntry, PublishEntry, CrashForge, Quiescent, vars,
           workerVars
  <2>2. v = w
    BY <2>1 DEF LedgerStep, Take, Dispatch, InsertHead, Commit, RecordPosted,
                PublishPosted, RecordRejected, Restart, CrashLedger, Goto, Return,
                WorkerType
  <2> QED BY <2>1, <2>2 DEF LedgerStep, Take, Dispatch, InsertHead, Commit,
                RecordPosted, PublishPosted, RecordRejected, Restart, CrashLedger,
                Goto, WorkerType
<1>2. PICK h \in heads : h.id = msg[w].id
  BY <1>1 DEF present
<1>3. PICK e \in Messages : IsHead(h, e.id, e.tenant)
  BY DEF OriginInv
<1>4. msg[w] \in Messages
  BY DEF OriginInv
<1>5. CASE e \in Foreign \/ msg[w] \in Foreign
  BY <1>2, <1>3, <1>5 DEF IsHead
<1>6. CASE e \notin Foreign /\ msg[w] \notin Foreign
  <2>1. PICK o \in Orders : e = ledger_entry(o)
    BY <1>3, <1>6 DEF Messages
  <2>2. PICK p \in Orders : msg[w] = ledger_entry(p)
    BY <1>4, <1>6 DEF Messages
  <2>3. /\ h.tenant = o.tenant /\ msg[w].tenant = p.tenant
        /\ ledger_entry_id(o) = ledger_entry_id(p)
    <3>1. \A q : /\ ledger_entry(q).id = ledger_entry_id(q)
                 /\ ledger_entry(q).tenant = q.tenant
      BY DEF ledger_entry
    <3> QED BY <1>2, <1>3, <2>1, <2>2, <3>1 DEF IsHead
  <2> QED BY <1>2, <2>3, FirstColon
<1> QED BY <1>5, <1>6

\* insert_if_absent keys on entry_id alone, and discards another tenant's entry only
\* where a tenant has a colon in its name or a producer other than Forge uses the id;
\* work order ids are unrestricted (ledger_entry_id).
THEOREM DiscardsAreExplained == Spec => DiscardIsExplained
<1>1. Init => OriginInv
  BY DEF Init, OriginInv
<1>2. SaleInv => WorkerType
  BY DEF SaleInv
<1>3. Spec => []OriginInv
  BY <1>1, <1>2, OriginNext, SaleAlways, PTL DEF Spec
<1>4. OriginInv /\ WorkerType /\ [Next]_vars =>
        [\A w \in Worker :
            wpc[w] = "insert" /\ wpc'[w] = "idle" =>
                \E h \in heads :
                    /\ h.id = msg[w].id
                    /\ \/ h.tenant = msg[w].tenant
                       \/ colon(h.tenant) \/ colon(msg[w].tenant)
                       \/ \E e \in Foreign : e.id = msg[w].id]_vars
  BY DiscardStep
<1> QED BY <1>2, <1>3, <1>4, SaleAlways, PTL DEF Spec, DiscardIsExplained
=============================================================================
