-------------------------- MODULE MCIntentRegistry --------------------------
(***************************************************************************)
(* A small instance of IntentRegistry.  The digests are chosen so that     *)
(* every check of registerIntent and recordVerification decides something: *)
(* two intents compiled against one nonce, two principals signing for one  *)
(* intent hash, a signature by somebody else, two attestations with one    *)
(* nonce, one whose intentHash or agentId is another intent's, and two     *)
(* oracles of which one starts without the role.                           *)
(***************************************************************************)
EXTENDS IntentRegistry

CONSTANTS i1, i2, g1, g2, a1, a2, b1, b2, p1, p2, admin, oracle

MCIntents == {i1, i2}
MCAgents == {g1, g2}
MCActions == {a1, a2}
MCBindings == {b1, b2}
MCAccounts == {p1, p2, admin, oracle}
MCRoleAccounts == {admin, oracle}

Intent(i, p, g, e, n) == [intentHash |-> i, principal |-> p, agentId |-> g,
                          expiresAt |-> e, nonce |-> n]

MCIntentDigests == {Intent(i1, p1, g1, 1, 0), Intent(i2, p1, g2, 2, 0),
                    Intent(i2, p1, g2, 3, 1), Intent(i1, p2, g2, 2, 0),
                    Intent(i2, p2, g1, 1, 0), Intent(i2, NoAccount, g1, 2, 0)}

MCPrincipalSigs ==
    {[signer |-> d.principal, digest |-> d] :
        d \in MCIntentDigests \ {Intent(i2, p2, g1, 1, 0), Intent(i2, NoAccount, g1, 2, 0)}}
    \cup {[signer |-> p1, digest |-> Intent(i2, p2, g1, 1, 0)]}

Attestation(i, h, g, a, v, n, e, b) ==
    [intentId |-> i, intentHash |-> h, agentId |-> g, actionHash |-> a, verdict |-> v,
     nonce |-> n, expiry |-> e, settlementBinding |-> b]

MCVerificationDigests ==
    {Attestation(i1, i1, g1, a1, "APPROVE", 0, 1, b1),
     Attestation(i1, i1, g1, a1, "REJECT", 0, 1, b1),
     Attestation(i1, i1, g1, a1, "CHALLENGE", 1, 2, b2),
     Attestation(i1, i1, g1, a2, "APPROVE", 1, 0, b2),
     Attestation(i1, i2, g1, a1, "APPROVE", 0, 2, b1),
     Attestation(i1, i1, g2, a1, "APPROVE", 0, 2, b2),
     Attestation(i2, i2, g2, a1, "APPROVE", 0, 2, b1)}

MCOracleSigs ==
    {[signer |-> oracle, digest |-> d] : d \in MCVerificationDigests}
    \cup {[signer |-> admin, digest |-> Attestation(i1, i1, g1, a1, "REJECT", 0, 1, b1)]}
=============================================================================
