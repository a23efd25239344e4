---------------------------- MODULE Index_proofs ----------------------------
(***************************************************************************)
(* What the abstract index promises follows from how it moves: until the   *)
(* chain reorganizes it holds all it claims and nothing else.              *)
(***************************************************************************)
EXTENDS Index, TLAPS

ClaimedInChain ==
    /\ claimed \in Int /\ claimed >= StartBlock - 1
    /\ claimed <= head \/ claimed = StartBlock - 1

IndexInv == forks \in Nat /\ (forks = 0 => ChainTypeOK /\ ClaimedInChain /\ Complete)

(* The contents of more blocks.                                            *)
LEMMA ContentsGrow ==
    ASSUME NEW a \in Int, NEW b \in Int, NEW c \in Int, NEW d \in Int, c <= a, b <= d
    PROVE  Contents(a, b) \subseteq Contents(c, d)
BY ChainAssumption DEF Contents, Heights, ChainAssumption

LEMMA ContentsJoin ==
    ASSUME NEW a \in Int, NEW b \in Int, NEW c \in Int
    PROVE  Contents(a, c) \subseteq Contents(a, b) \cup Contents(b + 1, c)
BY ChainAssumption DEF Contents, Heights, ChainAssumption

(* A new block leaves what the older ones hold.                            *)
LEMMA ContentsKept ==
    ASSUME ChainTypeOK, Mine, NEW a \in Int, NEW b \in Int, b <= head
    PROVE  Contents(a, b)' = Contents(a, b)
<1> DEFINE Block(t) == <<t, home[t], hashAt[home[t]]>>
<1>1. /\ MaxHeight \in Nat /\ head \in 0..MaxHeight /\ head' = head + 1
      /\ TxLogs \subseteq Txs \X (0..MaxLog)
  BY ChainAssumption DEF ChainAssumption, ChainTypeOK, Mine
<1>2. ASSUME NEW t \in Txs
      PROVE  /\ home[t] \in 0..MaxHeight
             /\ home'[t] = home[t] \/ (home[t] = 0 /\ home'[t] = head + 1)
  BY DEF Mine, ChainTypeOK
<1>3. ASSUME NEW h \in Heights, h <= head PROVE hashAt'[h] = hashAt[h]
  BY <1>1, <1>3 DEF Mine, ChainTypeOK, Heights
<1>4. ASSUME NEW t \in Txs
      PROVE  (home'[t] \in Heights \cap (a..b)) <=> (home[t] \in Heights \cap (a..b))
  BY <1>1, <1>2 DEF Heights
<1>5. ASSUME NEW t \in Txs, home[t] \in Heights \cap (a..b)
      PROVE  home'[t] = home[t] /\ hashAt'[home[t]] = hashAt[home[t]]
  BY <1>1, <1>2, <1>3, <1>5 DEF Heights
<1>6. \A l \in TxLogs : l[1] \in Txs
  BY <1>1
<1> QED
  BY <1>4, <1>5, <1>6 DEF Contents, Heights

LEMMA ChainKept == ChainTypeOK /\ Mine => ChainTypeOK'
BY ChainAssumption DEF ChainTypeOK, Mine, ChainAssumption, Heights, Hashes

LEMMA InitIndex ==
    ASSUME StartBlock \in Nat
    PROVE  IndexInit => IndexInv
<1> SUFFICES ASSUME IndexInit PROVE IndexInv
  OBVIOUS
<1>1. ChainTypeOK
  BY ChainAssumption
     DEF IndexInit, ChainInit, ChainTypeOK, ChainAssumption, Heights, Hashes
<1>2. ClaimedInChain
  BY DEF IndexInit, ClaimedInChain
<1>3. Complete
  BY DEF IndexInit, ChainInit, Complete, Contents
<1> QED
  BY <1>1, <1>2, <1>3 DEF IndexInv, IndexInit, ChainInit

LEMMA StepIndex ==
    ASSUME StartBlock \in Nat
    PROVE  IndexInv /\ [IndexNext]_indexVars => IndexInv'
<1> SUFFICES ASSUME IndexInv, [IndexNext]_indexVars PROVE IndexInv'
  OBVIOUS
<1>1. ASSUME NEW h \in Heights, Reorg(h) PROVE IndexInv'
  BY <1>1 DEF Reorg, IndexInv
<1>2. ASSUME NEW b, Retreat(b) PROVE IndexInv'
  BY <1>2 DEF Retreat, chainVars, IndexInv
<1>3. CASE Mine /\ UNCHANGED <<stored, claimed>>
  <2> SUFFICES ASSUME forks = 0 PROVE ChainTypeOK' /\ ClaimedInChain' /\ Complete'
    BY <1>3 DEF IndexInv, Mine
  <2>1. ChainTypeOK /\ ClaimedInChain /\ Complete
    BY DEF IndexInv
  <2>2. ChainTypeOK'
    BY <1>3, <2>1, ChainKept
  <2>3. head \in Int /\ head' = head + 1
    BY <1>3, <2>1 DEF Mine, ChainTypeOK
  <2>4. ClaimedInChain'
    BY <1>3, <2>1, <2>3 DEF ClaimedInChain
  <2>5. Contents(StartBlock, claimed)' \subseteq stored'
    <3>1. CASE claimed <= head
      <4>1. PICK c \in Int : c = claimed
        BY <2>1 DEF ClaimedInChain
      <4>2. Contents(StartBlock, c)' = Contents(StartBlock, c)
        BY <1>3, <2>1, <3>1, <4>1, ContentsKept
      <4> QED
        BY <1>3, <2>1, <4>1, <4>2 DEF Complete, IndexInv
    <3>2. CASE claimed = StartBlock - 1
      BY <1>3, <3>2 DEF Contents, Heights
    <3> QED
      BY <2>1, <3>1, <3>2 DEF ClaimedInChain
  <2>6. stored' \subseteq Contents(StartBlock, head)'
    <3>1. PICK n \in Int : n = head
      BY <2>3
    <3>2. Contents(StartBlock, n)' = Contents(StartBlock, n)
      BY <1>3, <2>1, <3>1, ContentsKept
    <3>3. Contents(StartBlock, n)' \subseteq Contents(StartBlock, head)'
      BY <2>3, <3>1, ChainAssumption DEF Contents, Heights, ChainAssumption
    <3> QED
      BY <1>3, <2>1, <3>1, <3>2, <3>3 DEF Complete
  <2> QED
    BY <2>2, <2>4, <2>5, <2>6 DEF Complete
<1>4. ASSUME NEW b \in Heights \cup {0}, Advance(b) \/ Forget(b) PROVE IndexInv'
  <2>1. UNCHANGED chainVars /\ claimed' = b
    BY <1>4 DEF Advance, Forget
  <2> SUFFICES ASSUME forks = 0 PROVE ChainTypeOK' /\ ClaimedInChain' /\ Complete'
    BY <2>1 DEF IndexInv, chainVars
  <2>2. ChainTypeOK /\ ClaimedInChain /\ Complete
    BY DEF IndexInv
  <2>3. ChainTypeOK'
    BY <2>1, <2>2 DEF ChainTypeOK, chainVars
  <2>4. b \in Int /\ head \in Int /\ claimed \in Int /\ claimed >= StartBlock - 1
    BY <2>2, ChainAssumption DEF Heights, ChainAssumption, ClaimedInChain, ChainTypeOK
  <2>5. ClaimedInChain'
    BY <1>4, <2>1, <2>2, <2>4 DEF ClaimedInChain, Advance, Forget, chainVars
  <2>6. \A x, y \in Int : Contents(x, y)' = Contents(x, y)
    BY <2>1 DEF Contents, chainVars, Heights
  <2>7. /\ Contents(StartBlock, claimed) \subseteq stored
        /\ stored \subseteq Contents(StartBlock, head)
    BY <2>2 DEF Complete
  <2>8. Contents(StartBlock, b) \subseteq stored' /\ stored' \subseteq Contents(StartBlock, head)
    <3>1. CASE Advance(b)
      <4>1. b <= head /\ stored' = stored \cup Contents(claimed + 1, b)
        BY <3>1 DEF Advance
      <4>2. Contents(claimed + 1, b) \subseteq Contents(StartBlock, head)
        BY <2>4, <4>1, ContentsGrow
      <4>3. Contents(StartBlock, b)
              \subseteq Contents(StartBlock, claimed) \cup Contents(claimed + 1, b)
        BY <2>4, ContentsJoin
      <4> QED
        BY <2>7, <4>1, <4>2, <4>3
    <3>2. CASE Forget(b)
      <4>1. b <= claimed /\ stored' = stored
        BY <3>2 DEF Forget
      <4> QED
        BY <2>4, <2>7, <4>1, ContentsGrow
    <3> QED
      BY <1>4, <3>1, <3>2
  <2>9. Contents(StartBlock, b)' \subseteq stored' /\ stored' \subseteq Contents(StartBlock, head)'
    <3>1. PICK n \in Int : n = head /\ n = head'
      BY <2>1, <2>4 DEF chainVars
    <3>2. Contents(StartBlock, n)' = Contents(StartBlock, n)
      BY <2>6
    <3>3. Contents(StartBlock, b)' = Contents(StartBlock, b)
      BY <2>4, <2>6
    <3> QED
      BY <2>8, <3>1, <3>2, <3>3
  <2> QED
    BY <2>1, <2>3, <2>5, <2>9 DEF Complete
<1>5. CASE UNCHANGED indexVars
  BY <1>5 DEF indexVars, chainVars, IndexInv, ChainTypeOK, ClaimedInChain, Complete,
     Contents, Heights
<1> QED
  BY <1>1, <1>2, <1>3, <1>4, <1>5 DEF IndexNext, ChainStep

(* The index holds all it claims and nothing that the chain does not have: *)
(* what CrawlerImplementsIndex makes of the crawler is worth having.       *)
THEOREM IndexIsComplete ==
    ASSUME StartBlock \in Nat
    PROVE  IndexSpec => []Complete
<1>1. IndexInit => IndexInv
  BY InitIndex
<1>2. IndexInv /\ [IndexNext]_indexVars => IndexInv'
  BY StepIndex
<1>3. IndexInv => Complete
  BY DEF IndexInv, Complete
<1> QED
  BY <1>1, <1>2, <1>3, PTL DEF IndexSpec

=============================================================================
