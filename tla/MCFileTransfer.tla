--------------------------- MODULE MCFileTransfer ---------------------------
(* Instances of FileTransfer for TLC. *)
EXTENDS FileTransfer

CONSTANTS f1, f2

OneBlock == [f \in Files |-> 1]
TwoBlocks == [f \in Files |-> 2]
FourBlocks == [f \in Files |-> 4]
OneAndTwo == [f \in Files |-> IF f = f1 THEN 1 ELSE 2]

\* The meta files are read by a restart only: a run without one need not tell
\* apart two states that differ in nothing else.
WithoutMetaFiles ==
  <<disk, out, outSize, nextId, current, scan, peerKnown, active, in, temp, incoming,
    senderKnown, reqmetaDue, toReceiver, toSender, fates, boundVars>>

\* The incoming folder is written and never read: a run whose properties do not
\* speak of it need not tell apart two states that differ in nothing else.
WithoutIncoming ==
  <<disk, senderVars, in, metaIn, temp, senderKnown, reqmetaDue, toReceiver, toSender,
    fates, boundVars>>
=============================================================================
