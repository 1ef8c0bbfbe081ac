------------------------------- MODULE Indexer -------------------------------
(***************************************************************************)
(* The chain indexer (indexer/canonical.py, sync.py, websocket.py): a      *)
(* subscriber that learns of new heads from one of several providers, the  *)
(* synchronisation it starts for each, block by block over RPC, and the    *)
(* canonical chain.  Meanwhile the chain grows and reorgs.                 *)
(*                                                                         *)
(* A block is the path to it, a sequence with 1 for each block that took   *)
(* the place of another: it tells the block's number and its parent, and   *)
(* two branches differ from their fork on.                                 *)
(* The ledger is not here: rebuild alone writes it, which walks from the  *)
(* head to a block that names no parent, and the program starts with an    *)
(* empty index on a chain whose every block names one.  The walk always    *)
(* ends at a parent that is not stored, and raises before the ledger is    *)
(* touched, when the head has moved already.                               *)
(***************************************************************************)
EXTENDS Naturals, Sequences

CONSTANTS
  Window,       \* reorg_window
  NumProviders, \* how many entries ws_urls has
  Dead,         \* those that refuse connections
  MaxHeight, MaxReorgs, MaxFaults   \* bounds

ASSUME IndexerAssumption ==
  /\ Window \in Nat \ {0}
  /\ NumProviders \in Nat \ {0}
  /\ Dead \subseteq 1..NumProviders /\ Dead # 1..NumProviders
  /\ {MaxHeight, MaxReorgs, MaxFaults} \subseteq Nat /\ MaxHeight >= Window + 2

VARIABLES
  tip,      \* the chain: its newest block
  top,      \* the greatest height it ever had
  stored,   \* CanonicalChain.blocks
  head,     \* CanonicalChain.head
  adopted,  \* history: the blocks that were the head
  sync,     \* the call of sync_once under way
  link,     \* the connection of the subscriber
  provider, \* the provider it uses
  reorgs, faults

index == <<stored, head, adopted>>
indexerVars == <<tip, top, index, sync, link, provider, reorgs, faults>>

Urls == 1..NumProviders

Tags == {0, 1}
Blocks == UNION {[1..n -> Tags] : n \in 1..MaxHeight}
None == << >>
UpTo(b, n) == SubSeq(b, 1, n)
Least(m, n) == IF m < n THEN m ELSE n
Greatest(m, n) == IF m < n THEN n ELSE m

\* number, to: the block to be fetched and the last one; block: the block fetched.
Syncs == [pc : {"idle", "block", "logs"}, number : 0..MaxHeight + 1, to : 0..MaxHeight, block : Blocks \cup {None}]

IndexerTypeOK ==
  /\ tip \in Blocks /\ top \in Len(tip)..MaxHeight
  /\ stored \subseteq Blocks
  /\ head \in stored \cup {None}
  /\ adopted \subseteq stored
  /\ sync \in Syncs
  /\ link \in {"up", "down"} /\ provider \in Urls
  /\ reorgs \in 0..MaxReorgs /\ faults \in 0..MaxFaults

\* The chain when the program starts.
Base == [n \in 1..Window + 2 |-> 0]

IndexerInit ==
  /\ tip = Base /\ top = Len(Base)
  /\ stored = {} /\ head = None /\ adopted = {}
  /\ sync = [pc |-> "idle", number |-> 0, to |-> 0, block |-> None]
  /\ link = "down" /\ provider = 1
  /\ reorgs = 0 /\ faults = 0

-----------------------------------------------------------------------------
(* The chain and its nodes *)

\* The hashes met when walking from hash h along known blocks, the last one included.
Line(h, known) ==
  {UpTo(h, n) : n \in {m \in 0..Len(h) : \A i \in m + 1..Len(h) : UpTo(h, i) \in known}}

\* An ancestor of b that the index connects with its head, or with the block that is to
\* be its first one, is at most Window below b: the heads the index misses and the blocks
\* replaced meanwhile are no more than it looks back over.
WithinWindow(b) ==
  LET h == IF head = None THEN sync.block ELSE head IN
  h = None \/ \E n \in 0..Len(b) : n + Window >= Len(b) /\ UpTo(b, n) \in Line(h, stored \cup {h})

Chain(b) ==
  /\ WithinWindow(b)
  /\ tip' = b /\ top' = Greatest(top, Len(b))
  /\ UNCHANGED <<index, sync, link, provider, faults>>

Mine ==
  /\ Len(tip) < MaxHeight
  /\ Chain(Append(tip, 0))
  /\ UNCHANGED reorgs

\* Blocks Window below the greatest height are never replaced.
Reorg ==
  /\ reorgs < MaxReorgs /\ reorgs' = reorgs + 1
  /\ \E n \in 1..Len(tip) - 1 :
       n + Window >= top /\ Chain(Append(UpTo(tip, n), 1 - tip[n + 1]))

-----------------------------------------------------------------------------
(* The subscriber (run_forever) *)

NextUrl(p) == IF p + 1 \in Urls THEN p + 1 ELSE 1

Connected ==
  /\ link = "down" /\ provider \notin Dead
  /\ link' = "up" /\ UNCHANGED provider

Refused ==
  /\ link = "down" /\ provider \in Dead
  /\ provider' = NextUrl(provider) /\ UNCHANGED link

\* The provider closes the connection, or it breaks, or a call of sync_once raises.
Dropped ==
  /\ link = "up" /\ faults < MaxFaults
  /\ link' = "down" /\ provider' \in {provider, NextUrl(provider)}
  /\ faults' = faults + 1

Subscriber ==
  /\ Connected \/ Refused
  /\ UNCHANGED <<tip, top, index, sync, reorgs, faults>>

-----------------------------------------------------------------------------
(* on_head and sync_once *)

\* on_head: a window of blocks that ends with head number n.
Start(n) == IF n < Window THEN 1 ELSE n + 1 - Window

\* Mutant: only blocks that are not known yet.
FromNumberForward(n) == IF head = None THEN Start(n) ELSE Least(n, Len(head) + 1)

\* The first block to be fetched for head number n.
FromNumber(n) == IF head = None THEN Start(n) ELSE Least(Start(n), Len(head) + 1)

\* A notification of head n; then "latest" is read.  A call that ends there, with nothing
\* to do or without an answer, changes nothing.
Begins(n) ==
  /\ link = "up" /\ sync.pc = "idle"
  /\ Start(n) <= Len(tip)
  /\ sync' = [pc |-> "block", number |-> FromNumber(n), to |-> Least(n, Len(tip)), block |-> None]
  /\ UNCHANGED <<tip, top, index, link, provider, reorgs>>

OnHead == Begins(Len(tip)) /\ UNCHANGED faults

\* The loop goes on to the next block.
Onward ==
  sync' = [sync EXCEPT !.pc = IF sync.number < sync.to THEN "block" ELSE "idle", !.number = @ + 1, !.block = None]

\* Then its logs are read, by number.
FetchBlock ==
  /\ sync.pc = "block"
  /\ IF sync.number <= Len(tip)
       THEN sync' = [sync EXCEPT !.pc = "logs", !.block = UpTo(tip, sync.number)]
       ELSE Onward
  /\ UNCHANGED <<tip, top, index, link, provider, reorgs, faults>>

-----------------------------------------------------------------------------
(* CanonicalChain *)

CommonAncestors(b, known) == Line(head, known) \cap Line(UpTo(b, Len(b) - 1), known)

Extends(b) == Len(b) = Len(head) + 1 /\ UpTo(b, Len(b) - 1) = head

\* Mutant: a block becomes the head wherever it comes from.
BecomesHeadAlways(b, known) == b # head

BecomesHead(b, known) ==
  \/ head = None
  \/ b # head /\ (Extends(b) \/ CommonAncestors(b, known) # {})

\* ingest_block.  Whether it adopts the block, ignores it or raises, and though rebuild
\* raises after the head has moved, sync_once goes on with the next block.
Ingest ==
  LET b == sync.block  known == stored \cup {b} IN
  /\ sync.pc = "logs"
  /\ stored' = known
  /\ IF BecomesHead(b, known)
       THEN head' = b /\ adopted' = adopted \cup {b}
       ELSE UNCHANGED <<head, adopted>>
  /\ Onward
  /\ UNCHANGED <<tip, top, link, provider, reorgs, faults>>

-----------------------------------------------------------------------------
(* Failures *)

\* A block or its logs cannot be had: an exception, or no block.
FetchFails ==
  /\ faults < MaxFaults /\ faults' = faults + 1
  /\ sync.pc \in {"block", "logs"}
  /\ Onward
  /\ UNCHANGED <<tip, top, index, link, provider, reorgs>>

\* A notification that arrives late, or from a provider that is behind.
LateHead ==
  /\ faults < MaxFaults /\ faults' = faults + 1
  /\ \E n \in 1..top \ {Len(tip)} : Begins(n)

Drop == Dropped /\ UNCHANGED <<tip, top, index, sync, reorgs>>

-----------------------------------------------------------------------------
IndexerNext ==
  \/ Mine \/ Reorg
  \/ Subscriber \/ Drop
  \/ OnHead \/ LateHead
  \/ FetchBlock \/ Ingest \/ FetchFails

IndexerSpec == IndexerInit /\ [][IndexerNext]_indexerVars

\* The subscriber's loop and a call of sync_once go on, and heads keep coming: on a
\* real chain there is always a next block.
IndexerFairSpec ==
  /\ IndexerSpec
  /\ WF_indexerVars(Subscriber) /\ WF_indexerVars(OnHead) /\ WF_indexerVars(FetchBlock) /\ WF_indexerVars(Ingest)

-----------------------------------------------------------------------------
(* Properties *)

\* Whatever is fetched late, twice, out of order or not at all, the head never comes to
\* a branch that the stored blocks do not connect with every block that was the head
\* before: the walks back from any two of them meet.
HeadsAreJoined == \A a, b \in adopted : Line(a, stored) \cap Line(b, stored) # {}

\* The index always comes back to the chain's own newest block, although blocks are
\* replaced while they are being fetched, fetches fail and connections break.
CatchesUp == []<>(head = tip)
==============================================================================
