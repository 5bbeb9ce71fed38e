------------------------------- MODULE MCConn -------------------------------
(* Small instances of Conn for TLC. *)
EXTENDS Conn

CONSTANTS LeftSends, RightSends, LeftMay, RightMay

MCMaxSend == [s \in Sides |-> IF s = "left" THEN LeftSends ELSE RightSends]
MCUserMay == [s \in Sides |-> IF s = "left" THEN LeftMay ELSE RightMay]
=============================================================================
