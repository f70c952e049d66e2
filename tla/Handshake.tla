------------------------------ MODULE Handshake ------------------------------
(***************************************************************************)
(* What SocketClient::Connect (cpp/src/socketclient.cc) makes of the answer*)
(* to its HTTP request: one recv() into a buffer, the status, the redirect *)
(* to another server, and the frames that came along with the response. The*)
(* header of an answer is a sequence of the parts that strstr() looks for; *)
(* recv() returns as much as has arrived, so the header may be cut between *)
(* any two parts or inside one.                                            *)
(*                                                                         *)
(* hpc follows Connect: "resolve" up to the call of socket(), "opened" up  *)
(* to the return of recv(), "received" while it looks at the buffer, "up"  *)
(* once it has started the worker, "dead" where it brings the process down.*)
(***************************************************************************)
EXTENDS Naturals, Sequences

CONSTANTS
  LastServer,   \* servers are 1..LastServer; the application names the first
  BufferFrames, \* frames that fit into the buffer behind the header
  MaxFailures   \* bound: failures of any kind

ASSUME HandshakeAssumption ==
  /\ LastServer \in Nat \ {0} /\ BufferFrames \in Nat /\ MaxFailures \in Nat

Servers == 1..LastServer
Entry   == 1
Nowhere == 0  \* a host name that is none

VARIABLES
  host,      \* option_.host and option_.port
  hpc,       \* where Connect is
  chunk,     \* the header as far as it is in the buffer
  early,     \* frames in the buffer behind it
  reader,    \* frames that AddToBuffer gave to the new Packet, unread
  net,       \* frames the server sent that are not in the reader
  open,      \* sockets that are not shut down
  failures,
  circular   \* whether a server may redirect to itself or to one before it

handshake == <<host, hpc, chunk, early, reader, net, open, failures, circular>>

HandshakeInit ==
  /\ host = Entry /\ hpc = "idle" /\ chunk = <<>> /\ early = 0
  /\ reader = <<>> /\ net = <<>>
  /\ open = 0 /\ failures = 0 /\ circular \in BOOLEAN

-----------------------------------------------------------------------------
(* What a server answers *)

Part(p) == [is |-> p]

\* Location: http://host:port/path, and the forms ParseIpPort was not written
\* for: no port, no path, a colon in the path only.
UrlForms == {"whole", "noport", "nopath", "latecolon"}
Url(s, form) == [is |-> "url", to |-> s, form |-> form]

Accepting        == <<Part("200"), Part("blank")>>
Refusing         == <<Part("401"), Part("blank")>>
Redirecting(url) == <<Part("303"), Part("http://"), url, Part("blank")>>

\* The servers that s redirects to.
Targets(s) == IF circular THEN Servers ELSE (s + 1)..LastServer

Answers(s) ==
  {Accepting, Refusing} \cup {Redirecting(Url(t, form)) : t \in Targets(s), form \in UrlForms}

Has(parts, p) == \E i \in DOMAIN parts : parts[i].is = p

-----------------------------------------------------------------------------
(* What Connect sees in it *)

\* ParseIpPort: without a ':' or without a '/' after it there is no address.  A
\* colon in the path is taken for the one before the port, and what precedes it,
\* with half the path, for the host.
Parses(url)      == url.form \in {"whole", "latecolon"}
ParseIpPort(url) == IF url.form = "whole" THEN url.to ELSE Nowhere

Location(parts) == {parts[i] : i \in {j \in DOMAIN parts : parts[j].is = "url"}}

\* A header that is cut short may be "malformed" (codes -7 and -8), or end the
\* process ("crash"): data_start is computed from a NULL and the length fails the
\* CHECK of AddToBuffer, or the NULL that strstr() returns for the start of the
\* URL is passed to the next strstr().
Verdict(parts) ==
  IF Has(parts, "200") THEN IF Has(parts, "blank") THEN "accepted" ELSE "crash"
  ELSE IF Has(parts, "303") /\ ~Has(parts, "http://") THEN "crash"
  ELSE IF \E url \in Location(parts) : Parses(url) THEN "redirected"
  ELSE "malformed"

Helpful(parts) ==
  \/ Verdict(parts) = "accepted"
  \/ \E url \in Location(parts) : Parses(url) /\ ParseIpPort(url) # Nowhere

-----------------------------------------------------------------------------
(* Connect *)

\* Faulty: the host of the last redirect is asked again.
CallKeepsHost ==
  /\ hpc = "idle"
  /\ hpc' = "resolve"
  /\ UNCHANGED <<host, chunk, early, reader, net, open, failures, circular>>

\* XPushManager.connect() sets the host and the port before each Connect.
Call ==
  /\ hpc = "idle"
  /\ hpc' = "resolve" /\ host' = Entry
  /\ UNCHANGED <<chunk, early, reader, net, open, failures, circular>>

Failure == failures < MaxFailures /\ failures' = failures + 1

\* Codes -1 to -3: no port, or GetHostIp or socket() fails.
NoSocket ==
  /\ hpc = "resolve" /\ Failure
  /\ hpc' = "idle"
  /\ UNCHANGED <<host, chunk, early, reader, net, open, circular>>

\* What is no host has no address.
NoAddress == host = Nowhere /\ NoSocket

Socket ==
  /\ hpc = "resolve" /\ host # Nowhere
  /\ hpc' = "opened" /\ open' = open + 1
  /\ UNCHANGED <<host, chunk, early, reader, net, failures, circular>>

\* ::shutdown(sock_fd_, SHUT_RDWR); nothing closes the socket.
Shutdown == open' = open - 1 /\ chunk' = <<>> /\ early' = 0 /\ net' = <<>>

\* Codes -4 to -6: connect(), send() or recv() fails.
NoAnswer ==
  /\ hpc = "opened" /\ Failure
  /\ hpc' = "idle" /\ Shutdown
  /\ UNCHANGED <<host, reader, circular>>

\* The one recv(): k parts of the header, and behind a whole one some of the
\* frames that the server sends to whom it accepts.  It has no timeout: it returns
\* when something comes, which may be never.
Recv(frames) ==
  /\ hpc = "opened"
  /\ \E answer \in Answers(host) : \E k \in 0..Len(answer) :
       /\ chunk' = SubSeq(answer, 1, k)
       /\ failures < MaxFailures \/ Helpful(chunk')
       /\ net' = IF answer = Accepting THEN frames ELSE <<>>
       /\ early' \in IF k = Len(answer) THEN 0..Len(net') ELSE {0}
  /\ early' <= BufferFrames
  /\ hpc' = "received"
  /\ UNCHANGED <<host, reader, open, failures, circular>>

Malformed ==
  /\ hpc = "received" /\ Verdict(chunk) = "malformed" /\ Failure
  /\ hpc' = "idle" /\ Shutdown
  /\ UNCHANGED <<host, reader, circular>>

\* Faulty: the address in the answer is not taken over.
RedirectedToItself ==
  /\ hpc = "received" /\ Verdict(chunk) = "redirected"
  /\ hpc' = "resolve" /\ Shutdown
  /\ UNCHANGED <<host, reader, failures, circular>>

\* Faulty: the socket is left open.
RedirectedLeavesOpen ==
  /\ hpc = "received" /\ Verdict(chunk) = "redirected"
  /\ \E url \in Location(chunk) : host' = ParseIpPort(url)
  /\ hpc' = "resolve" /\ chunk' = <<>> /\ early' = 0 /\ net' = <<>>
  /\ UNCHANGED <<reader, open, failures, circular>>

\* Code 303: the address goes into option_, and Connect calls itself.
Redirected ==
  /\ hpc = "received" /\ Verdict(chunk) = "redirected"
  /\ \E url \in Location(chunk) : host' = ParseIpPort(url)
  /\ hpc' = "resolve" /\ Shutdown
  /\ UNCHANGED <<reader, failures, circular>>

\* Faulty: what came along with the response is dropped.
EstablishedDropsData ==
  /\ hpc = "received" /\ Verdict(chunk) = "accepted"
  /\ reader' = <<>>
  /\ net' = SubSeq(net, early + 1, Len(net))
  /\ hpc' = "up" /\ chunk' = <<>> /\ early' = 0
  /\ UNCHANGED <<host, open, failures, circular>>

\* Code 200: a new Packet gets what is in the buffer behind the blank line.
Established ==
  /\ hpc = "received" /\ Verdict(chunk) = "accepted"
  /\ reader' = SubSeq(net, 1, early)
  /\ net' = SubSeq(net, early + 1, Len(net))
  /\ hpc' = "up" /\ chunk' = <<>> /\ early' = 0
  /\ UNCHANGED <<host, open, failures, circular>>

Crash ==
  /\ hpc = "received" /\ Verdict(chunk) = "crash" /\ Failure
  /\ hpc' = "dead" /\ Shutdown
  /\ UNCHANGED <<host, reader, circular>>

\* The steps that Connect takes by itself, those in which it waits for nobody.
Connect ==
  \/ Call \/ NoAddress \/ Socket
  \/ Malformed \/ Redirected \/ Established \/ Crash

-----------------------------------------------------------------------------
(* The two ways in which a call of Connect never returns *)

\* The server says nothing, and keeps the connection.
Silence == [](hpc = "opened")

\* The servers redirect in a circle, and Connect calls itself again and again.
Circle == circular /\ []<>(Verdict(chunk) = "redirected")

=============================================================================
