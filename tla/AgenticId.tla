------------------------------ MODULE AgenticId ------------------------------
(***************************************************************************)
(* IntentosAgenticIdV2: tokens with encrypted metadata whose transfer and  *)
(* clone need a proof signed by the oracle, and POST /agentic/v2/proof,    *)
(* which signs it.  Minting to the contract Hook calls it before the       *)
(* metadata is written; until it returns or reverts only Hook acts.        *)
(* IntentosAgenticId (v1) has the same mint and authorizeUsage, no proofs. *)
(***************************************************************************)
EXTENDS Integers, Sequences, FiniteSets, SequencesExt

CONSTANTS Accounts,   \* holders, Hook among them
          Hook,       \* the contract that may reenter from onERC721Received
          Nobody,     \* the zero address
          Datas,      \* what an encrypted URI holds; its hash is taken of it
          MaxTokens,  \* bound on the tokens minted
          MaxProofs,  \* bound on the proofs signed
          MaxDepth    \* bound on nested calls

VARIABLES owner,      \* ERC721 owner, Nobody if the token does not exist
          metadata,   \* URI and hash of each token; the sealed key is the sender's
          authorized, \* executors with permissions, per token
          stack,      \* open mints and clones to Hook
          proofs,     \* what the oracle has signed
          request     \* the proof request being served

tokenVars == <<owner, metadata, authorized>>
agenticVars == <<owner, metadata, authorized, stack, proofs, request>>

Tokens == 1..MaxTokens
NoData == "none"
Unset == [uri |-> NoData, hash |-> NoData]
Metadata == [uri : Datas \cup {NoData}, hash : Datas \cup {NoData}]
Proof == [kind : {"transfer", "clone"}, token : Tokens, from : Accounts, to : Accounts, uri : Datas, hash : Datas]
Idle == [stage |-> "idle"]

(* What the constants must be. *)
AgenticConstants ==
  /\ Hook \in Accounts /\ Nobody \notin Accounts /\ NoData \notin Datas
  /\ MaxTokens \in Nat /\ MaxProofs \in Nat /\ MaxDepth \in Nat

AgenticInit ==
  /\ owner = [t \in Tokens |-> Nobody] /\ metadata = [t \in Tokens |-> Unset]
  /\ authorized = [t \in Tokens |-> {}] /\ stack = <<>> /\ proofs = {} /\ request = Idle

Exists(t) == owner[t] # Nobody
MayAct(who) == stack # <<>> => who = Hook
NextTokenId == Cardinality({t \in Tokens : Exists(t)}) + 1

-----------------------------------------------------------------------------
\* A faulty variant, for mutation runs: the metadata is lost when a contract
\* is called.
SafeMintForgets(to, t, data) ==
  /\ owner' = [owner EXCEPT ![t] = to]
  /\ metadata' = IF to = Hook THEN metadata ELSE [metadata EXCEPT ![t] = data]
  /\ stack' = stack /\ UNCHANGED authorized

(* _safeMint, then the writes after it: at once for an account, when it
   returns for Hook, whose frame keeps the storage a revert restores. *)
SafeMint(to, t, data) ==
  /\ owner' = [owner EXCEPT ![t] = to]
  /\ IF to = Hook
     THEN /\ Len(stack) < MaxDepth
          /\ stack' = Append(stack, [token |-> t, data |-> data, owner |-> owner,
                                     metadata |-> metadata, authorized |-> authorized])
          /\ UNCHANGED metadata
     ELSE metadata' = [metadata EXCEPT ![t] = data] /\ UNCHANGED stack
  /\ UNCHANGED authorized

(* mint: by the contract's owner, which is not Hook. *)
Mint ==
  \E to \in Accounts, d \in Datas :
    /\ stack = <<>> /\ NextTokenId \in Tokens
    /\ SafeMint(to, NextTokenId, [uri |-> d, hash |-> d])
    /\ UNCHANGED <<proofs, request>>

AuthorizeUsage ==
  \E t \in Tokens, executor \in Accounts, grant \in BOOLEAN :
    /\ Exists(t) /\ MayAct(owner[t])
    /\ authorized' = [authorized EXCEPT ![t] = IF grant THEN @ \cup {executor} ELSE @ \ {executor}]
    /\ UNCHANGED <<owner, metadata, stack, proofs, request>>

\* A faulty variant, for mutation runs: the proof's sender is not compared.
VerifiesAnySender(p, kind, t, from, to) == p.kind = kind /\ p.token = t /\ p.to = to

(* _verify: the signed struct names kind, token, both parties and the data. *)
Verifies(p, kind, t, from, to) == p.kind = kind /\ p.token = t /\ p.from = from /\ p.to = to

TransferWithProof ==
  \E t \in Tokens, to \in Accounts, p \in proofs :
    /\ Exists(t) /\ MayAct(owner[t]) /\ Verifies(p, "transfer", t, owner[t], to)
    /\ metadata' = [metadata EXCEPT ![t] = [uri |-> p.uri, hash |-> p.hash]]
    /\ owner' = [owner EXCEPT ![t] = to]
    /\ UNCHANGED <<authorized, stack, proofs, request>>

Clone ==
  \E t \in Tokens, to \in Accounts, p \in proofs :
    /\ Exists(t) /\ MayAct(owner[t]) /\ Verifies(p, "clone", t, owner[t], to) /\ NextTokenId \in Tokens
    /\ SafeMint(to, NextTokenId, [uri |-> p.uri, hash |-> p.hash])
    /\ UNCHANGED <<proofs, request>>

(* ERC721.transferFrom, inherited: moves the token and nothing else. *)
TransferFrom ==
  \E t \in Tokens, to \in Accounts :
    /\ Exists(t) /\ MayAct(owner[t]) /\ owner' = [owner EXCEPT ![t] = to]
    /\ UNCHANGED <<metadata, authorized, stack, proofs, request>>

HookReturns ==
  /\ stack # <<>> /\ stack' = Front(stack)
  /\ metadata' = [metadata EXCEPT ![Last(stack).token] = Last(stack).data]
  /\ UNCHANGED <<owner, authorized, proofs, request>>

HookReverts ==
  /\ stack # <<>> /\ stack' = Front(stack)
  /\ owner' = Last(stack).owner /\ metadata' = Last(stack).metadata
  /\ authorized' = Last(stack).authorized
  /\ UNCHANGED <<proofs, request>>

-----------------------------------------------------------------------------
(* POST /agentic/v2/proof: what the body leaves out is read from the chain,
   URI and hash by two calls; then the oracle signs. *)
AskProof ==
  \E kind \in {"transfer", "clone"}, t \in Tokens, from \in Accounts, to \in Accounts,
     uri \in Datas \cup {NoData}, hash \in Datas \cup {NoData} :
    /\ request.stage = "idle" /\ stack = <<>> /\ Cardinality(proofs) < MaxProofs
    /\ request' = [stage |-> IF NoData \in {uri, hash} THEN "uri" ELSE "sign",
                   kind |-> kind, token |-> t, from |-> from, to |-> to, uri |-> uri, hash |-> hash]
    /\ UNCHANGED <<tokenVars, stack, proofs>>

ReadUri ==
  /\ request.stage = "uri" /\ stack = <<>>
  /\ request' = IF Exists(request.token)
                THEN [request EXCEPT !.stage = "hash", !.uri = IF @ = NoData THEN metadata[request.token].uri ELSE @]
                ELSE Idle
  /\ UNCHANGED <<tokenVars, stack, proofs>>

ReadHash ==
  /\ request.stage = "hash" /\ stack = <<>>
  /\ request' = [request EXCEPT !.stage = "sign", !.hash = IF @ = NoData THEN metadata[request.token].hash ELSE @]
  /\ UNCHANGED <<tokenVars, stack, proofs>>

SignProof ==
  /\ request.stage = "sign" /\ stack = <<>> /\ request' = Idle
  /\ proofs' = IF NoData \in {request.uri, request.hash} THEN proofs
               ELSE proofs \cup {[kind |-> request.kind, token |-> request.token, from |-> request.from,
                                  to |-> request.to, uri |-> request.uri, hash |-> request.hash]}
  /\ UNCHANGED <<tokenVars, stack>>

TokenNext == Mint \/ AuthorizeUsage \/ TransferWithProof \/ Clone \/ TransferFrom \/ HookReturns \/ HookReverts
AgenticNext == TokenNext \/ AskProof \/ ReadUri \/ ReadHash \/ SignProof
AgenticSpec == AgenticInit /\ [][AgenticNext]_agenticVars

-----------------------------------------------------------------------------
Frame == [token : Tokens, data : Metadata, owner : [Tokens -> Accounts \cup {Nobody}],
          metadata : [Tokens -> Metadata], authorized : [Tokens -> SUBSET Accounts]]

(* Types; tokens are numbered without gaps through reverts and reentrance. *)
AgenticTypeOK ==
  /\ owner \in [Tokens -> Accounts \cup {Nobody}] /\ metadata \in [Tokens -> Metadata]
  /\ authorized \in [Tokens -> SUBSET Accounts] /\ proofs \subseteq Proof
  /\ \A i \in 1..Len(stack) : stack[i] \in Frame
  /\ \A t \in Tokens : Exists(t) <=> t < NextTokenId

Minting(t) == \E i \in 1..Len(stack) : stack[i].token = t

(* Outside a minting call every token has its metadata, and no metadata is
   left of a mint or clone that was reverted, however calls nest. *)
MintedComplete ==
  \A t \in Tokens : ~Minting(t) => (Exists(t) <=> metadata[t].uri # NoData)

(* Until a call ends, the metadata of a token that exists changes only by a
   proof that names it, its holder, the account that holds it after the step
   and the new data. *)
MetadataMovesByProof ==
  [][\A t \in Tokens : Len(stack') >= Len(stack) /\ Exists(t) /\ metadata'[t] # metadata[t] =>
        \E p \in proofs : /\ p.token = t /\ p.from = owner[t] /\ p.to = owner'[t]
                          /\ metadata'[t] = [uri |-> p.uri, hash |-> p.hash]]_agenticVars

(* Stated by the notice at IntentosAgenticIdV2.sol:10 (oracle-gated
   transfer): a token changes hands only by a proof of the oracle. *)
TransfersAreGated ==
  [][\A t \in Tokens : stack = stack' /\ Exists(t) /\ owner'[t] # owner[t] =>
        \E p \in proofs : p.kind = "transfer" /\ p.token = t /\ p.from = owner[t] /\ p.to = owner'[t]]_agenticVars
=============================================================================
