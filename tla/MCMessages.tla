----------------------------- MODULE MCMessages ------------------------------
(*
 * The ways of a message for TLC: it is encoded and decoded (Codec), stored by an
 * earlier version and migrated (Upgrade), counted with its transaction (Ante), or
 * sent by a contract and performed (Messages). A behaviour is one of the four.
 *)
EXTENDS Codec, Upgrade, Ante, Messages

Init == CodecIdle /\ UpgradeIdle /\ AnteIdle /\ MessagesIdle

Next ==
    \/ /\ UpgradeIdle /\ AnteIdle /\ MessagesIdle
       /\ CodecNext
       /\ UNCHANGED <<upgradeVars, anteVars, messageVars>>
    \/ /\ CodecIdle /\ AnteIdle /\ MessagesIdle
       /\ UpgradeNext
       /\ UNCHANGED <<codecVars, anteVars, messageVars>>
    \/ /\ CodecIdle /\ UpgradeIdle /\ MessagesIdle
       /\ AnteNext
       /\ UNCHANGED <<codecVars, upgradeVars, messageVars>>
    \/ /\ CodecIdle /\ UpgradeIdle /\ AnteIdle
       /\ MessagesNext
       /\ UNCHANGED <<codecVars, upgradeVars, anteVars>>

Spec == Init /\ [][Next]_<<codecVars, upgradeVars, anteVars, messageVars>>
==============================================================================
