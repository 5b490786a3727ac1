------------------------------ MODULE MCPorts -------------------------------
(***************************************************************************)
(* The ports of the device: the DHCP server, the connection slots of the   *)
(* TCP server, and a channel over a UART.  They share no state, so they    *)
(* are checked side by side, one per behaviour.                            *)
(***************************************************************************)
EXTENDS DhcpServer, UartBackend, TLC

VARIABLES part, listening, conn, sock, tcpOwner, turn, time, polled

Tcp == INSTANCE TcpServer WITH
  Limit <- 2, SegLen <- 1, MaxSegs <- 1, SendBuf <- 1, CloseTicks <- 2, Wrap <- 3,
  Pcbs <- 1 .. 3, NoPcb <- 0, owner <- tcpOwner

tcpVars == <<listening, conn, sock, tcpOwner, turn, time, polled>>

MCInit ==
  /\ part \in {"dhcp", "uart", "tcp"}
  /\ Init /\ UartInit /\ Tcp!Init

MCNext ==
  \/ part = "dhcp" /\ Next /\ UNCHANGED <<part, uartVars, tcpVars>>
  \/ part = "uart" /\ UartNext /\ UNCHANGED <<part, vars, tcpVars>>
  \/ part = "tcp" /\ Tcp!Next /\ UNCHANGED <<part, vars, uartVars>>

MCSpec == MCInit /\ [][MCNext]_<<part, vars, uartVars, tcpVars>>

(* What an earlier peer left in a slot of TcpSessionServer never meets the *)
(* next one (see TcpServer).                                               *)
NothingInherited == Tcp!NothingInherited

(* A closing connection is neither cut short nor kept (see TcpServer).     *)
ClosingIsOrderly == Tcp!ClosingIsOrderly

ClientSymmetry == Permutations(Clients)
=============================================================================
