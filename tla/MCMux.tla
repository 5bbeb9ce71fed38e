------------------------------- MODULE MCMux --------------------------------
(***************************************************************************)
(* Small instances of Mux for TLC.  The caller opens the stream "a" and    *)
(* the rpc "b", the callee opens the stream "z".                           *)
(***************************************************************************)
EXTENDS Mux

CONSTANTS OutSends, RpcSends, ReplySends  \* the messages sent by each user

MCOpener == [t \in Tags |-> IF t = "z" THEN "callee" ELSE "caller"]
MCMaxSend ==
    [e \in Ends |-> CASE IsRpc(e) /\ IsOpener(e)  -> RpcSends
                      [] IsRpc(e) /\ ~IsOpener(e) -> ReplySends
                      [] ~IsRpc(e) -> OutSends]

AOut == <<"caller", "a">>
AIn == <<"callee", "a">>
BCaller == <<"caller", "b">>
BCallee == <<"callee", "b">>

AStream == INSTANCE Stream WITH
    MaxSent <- MaxSend[AOut], Lost <- Discards, sent <- usr[AOut].sent,
    writer <- WriterOf(AOut), got <- usr[AIn].seen, reader <- ReaderOf(AIn)
BRequest == INSTANCE Stream WITH
    MaxSent <- MaxSend[BCaller], Lost <- Discards, sent <- usr[BCaller].sent,
    writer <- WriterOf(BCaller), got <- usr[BCallee].seen,
    reader <- ReaderOf(BCallee)
BReply == INSTANCE Stream WITH
    MaxSent <- MaxSend[BCallee], Lost <- Discards, sent <- usr[BCallee].sent,
    writer <- WriterOf(BCallee), got <- usr[BCaller].seen,
    reader <- ReaderOf(BCaller)

\* A stream opened with Out is a Stream: whatever the interleaving of out,
\* demux, flowproc, the users, Close and a failing device, its reader gets the
\* values in order, none missing or twice, and a clean end only after the last.
OutIsStream == AStream!SSpec
\* The same for the request of an Rpc; the callee that has already ended its
\* reply (out closes the connection then) may miss the rest of it.
RequestIsStream == BRequest!SSpec
\* The same for the reply of an Rpc, which goes straight to conn.in.
ReplyIsStream == BReply!SSpec
=============================================================================
