------------------------------ MODULE Protocol ------------------------------
(***************************************************************************)
(* The vocabulary of the wire protocol: piece colours and the messages of  *)
(* opcode.h / message.h, reduced to the fields that the control flow or a   *)
(* property reads.  User names, chat text, reject reasons and board squares *)
(* are left out.                                                            *)
(***************************************************************************)

\* PieceColor (surakarta-core).  A READY message asks for one of Request.
Color == {"BLACK", "WHITE"}
Request == Color \cup {"NONE"}

\* ReverseColor of surakarta-core.
Reverse(k) == IF k = "BLACK" THEN "WHITE" ELSE "BLACK"

\* What a server can receive.  "BADREADY" and "BADMOVE" are READY_OP and MOVE_OP
\* messages that do not parse (the constructor throws); "OTHER" is any opcode the
\* service does not name; "EOF" is Receive() returning nullopt.
ReadyOp(RoomId) == [op : {"READY"}, id : RoomId, color : Request]
MoveOp == {"MOVE", "BADMOVE"}
GameOp == [op : MoveOp \cup {"RESIGN", "LEAVE", "CHAT", "OTHER", "BADREADY"}]
EOF == [op |-> "EOF"]
Input(RoomId) == ReadyOp(RoomId) \cup GameOp \cup {EOF}

\* What the service sends to a client.  The END message of a resignation names
\* the winner; the END message of a finished game takes it from the daemon.
ReadyMsg(k) == [op |-> "READY", color |-> k]
RejectMsg == [op |-> "REJECT"]
MoveMsg == [op |-> "MOVE"]
ChatMsg == [op |-> "CHAT"]
ResignEnd(k) == [op |-> "END", reason |-> "RESIGN", winner |-> k]
GameEnd == [op |-> "END", reason |-> "GAME"]
Answer == [op : {"READY"}, color : Color] \cup {RejectMsg, MoveMsg, ChatMsg, GameEnd}
            \cup [op : {"END"}, reason : {"RESIGN"}, winner : Color]
=============================================================================
