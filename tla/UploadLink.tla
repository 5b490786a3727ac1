----------------------------- MODULE UploadLink -----------------------------
(***************************************************************************)
(* The TCP connections between one host tool and the upload service:      *)
(* session_smoke.Probe at one end, TcpSessionServer and Session at the     *)
(* other.  A tool's connections are numbered in the order it opens them.   *)
(* A Probe has one request outstanding at a time, so a connection holds at *)
(* most one request and one reply.                                         *)
(*                                                                         *)
(* Other clients of the device upload too, the link fails at any moment,   *)
(* and the device may restart, which loses the record and every socket.    *)
(***************************************************************************)
EXTENDS UploadRecord

CONSTANTS
  Links,      \* connections the tool opens, 1..n
  Image,      \* the capsule the tool sends
  MaxBoots    \* bound on restarts

ASSUME LinkAssumption ==
  /\ None \notin Owners \cup Capsules
  /\ Image \in Valid /\ Valid \subseteq Capsules
  /\ Size \in [Capsules -> Nat \ {0}]

VARIABLES
  boot,       \* boot_id, counted
  link        \* link[k]: the state of connection k

linkVars == <<boot, link>>

\* client: what the tool has done with its socket.  server: "open" while the
\* pcb lives, "dead" once it is gone but poll() has not destroyed the session.
NoLink == [client |-> "closed", server |-> "none", owner |-> None,
           request |-> None, reply |-> None]

\* Slot numbers + 1 of the sessions that exist.
Taken == {link[k].owner : k \in Links}

Uncommitted(o) == Held(o, "accepted") \/ Held(o, "verified")

\* socket.create_connection and the hello exchange, which tells the boot.  The
\* server gives the connection a slot that no other session holds.
Open(k) ==
  /\ link[k].server = "none"
  /\ \E o \in Owners \ Taken :
       /\ ~Uncommitted(o)
       /\ link' = [link EXCEPT ![k] = [NoLink EXCEPT !.client = "open",
                                                     !.server = "open", !.owner = o]]

\* request_frame's sendall; once the server is gone the bytes go nowhere.
SendOn(k, op, id, offset) ==
  link' = [link EXCEPT ![k].request =
             IF link[k].server = "open"
             THEN [op |-> op, id |-> id, offset |-> offset] ELSE None]

\* close(), and finish()'s shutdown(SHUT_WR), which the server takes for a close.
HangUp(k) == link' = [link EXCEPT ![k].client = "closed", ![k].reply = None]

----------------------------------------------------------------------------
(* The device *)

\* check() and the offset test of the service.
Matches(o, q) ==
  CASE q.op = "begin"  -> ~Busy /\ ids < MaxId
    [] q.op = "chunk"  -> record.id = q.id /\ Held(o, "accepted") /\ record.received = q.offset
    [] q.op = "finish" -> record.id = q.id /\ Held(o, "accepted")
                          /\ record.received = Size[record.capsule]
    [] q.op = "commit" -> record.id = q.id /\ Held(o, "verified")
    [] q.op = "status" -> record.id = q.id

Perform(o, q) ==
  CASE q.op = "begin"  -> Begin(o, Image)
    [] q.op = "chunk"  -> Chunk(o, 1)
    [] q.op = "finish" -> Finish(o)
    [] q.op = "commit" -> Commit(o)
    [] q.op = "status" -> UNCHANGED recordVars

Answer(k, r) == link' = [link EXCEPT ![k].request = None, ![k].reply = r]

\* The first loop of TcpSessionServer::poll destroys every dead session before
\* the second reads a request.
Swept == \A k \in Links : link[k].server # "dead"

\* Session::dispatch_upload and upload_response: the record after the request,
\* or an error (NoRecord).  Besides check(), begin and commit fail when D2 is not armed or
\* the console is owned, and a finish that rejects the stage answers an error.
Serve(k) ==
  LET o == link[k].owner
      q == link[k].request IN
  /\ link[k].server = "open" /\ q # None /\ Swept
  /\ \/ /\ Matches(o, q)
        /\ Perform(o, q)
        /\ Answer(k, IF record'.state = "failed" /\ q.op = "finish"
                     THEN NoRecord ELSE record')
     \/ /\ ~Matches(o, q) \/ q.op \in {"begin", "commit"}
        /\ Answer(k, NoRecord)
        /\ UNCHANGED recordVars
  /\ UNCHANGED boot

\* End of file, a reset or a lost link: the pcb goes at once, and with it
\* whatever the session had not read.  A reply already sent may still arrive.
Die(k) ==
  /\ link[k].server = "open"
  /\ link' = [link EXCEPT ![k].server = "dead", ![k].request = None]
  /\ UNCHANGED <<boot, recordVars>>

\* Session::~Session tells the service, which abandons an uncommitted stage.
Destroy(k) ==
  /\ link[k].server = "dead"
  /\ link' = [link EXCEPT ![k].server = "gone", ![k].owner = None]
  /\ IF Uncommitted(link[k].owner) THEN Abandon(link[k].owner) ELSE UNCHANGED recordVars
  /\ UNCHANGED boot

\* Another client's session, in a slot this tool does not hold.
Others ==
  /\ \E o \in Owners \ Taken : Request(o)
  /\ UNCHANGED linkVars

Service == Poll /\ UNCHANGED linkVars

Restart ==
  /\ boot < MaxBoots
  /\ boot' = boot + 1
  /\ Reset
  /\ link' = [k \in Links |->
       [link[k] EXCEPT !.server = IF @ = "none" THEN @ ELSE "gone",
                       !.owner = None, !.request = None]]

LinkInit == boot = 1 /\ link = [k \in Links |-> NoLink]

Device == Others \/ Service \/ Restart \/ \E k \in Links : Serve(k) \/ Die(k) \/ Destroy(k)
=============================================================================
