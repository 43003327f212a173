------------------------------ MODULE FaultAlgebra ------------------------------
(* The fault algebra and the retry targets of admin/runtime.py: how an      *)
(* exception becomes a fault, which exceptions a retry class repeats, and   *)
(* how a block of rails is folded.  A rail is "ok" or the exception that    *)
(* was converted; a fault is the sequence of its leaf tags, an aggregate    *)
(* being a sequence of two or more.                                         *)
EXTENDS Integers, Sequences

(* Each exception with the classes it is an instance of, itself included:  *)
(* the hierarchies of Python, anyio, asyncssh, httpx, pg8000 and msgspec.  *)
Hierarchy ==
  LET Disconnect == {"DisconnectError", "asyncssh.Error", "Exception"}
  IN [TimeoutError       |-> {"TimeoutError", "OSError", "Exception"},
      FileNotFoundError  |-> {"FileNotFoundError", "OSError", "Exception"},
      ConnectionFailed   |-> {"ConnectionFailed", "OSError", "Exception"},
      BrokenResourceError |-> {"BrokenResourceError", "Exception"},
      DecodeError        |-> {"DecodeError", "Exception"},
      HintViolation      |-> {"HintViolation", "Exception"},
      ImportError        |-> {"ImportError", "Exception"},
      HTTPStatusError    |-> {"HTTPStatusError", "HTTPError", "Exception"},
      HTTPError          |-> {"HTTPError", "Exception"},
      ConnectError       |-> {"ConnectError", "HTTPError", "Exception"},
      RemoteProtocolError |-> {"RemoteProtocolError", "HTTPError", "Exception"},
      ProcessError       |-> {"ProcessError", "asyncssh.Error", "Exception"},
      SFTPError          |-> {"SFTPError", "asyncssh.Error", "Exception"},
      DisconnectError    |-> Disconnect,
      PermissionDenied   |-> {"PermissionDenied"} \cup Disconnect,
      ProtocolError      |-> {"ProtocolError"} \cup Disconnect,
      ConnectionLost     |-> {"ConnectionLost"} \cup Disconnect,
      ChannelOpenError   |-> {"ChannelOpenError", "asyncssh.Error", "Exception"},
      DatabaseError      |-> {"DatabaseError", "pg8000.Error", "Exception"},
      InterfaceError     |-> {"InterfaceError", "pg8000.Error", "Exception"},
      TerminalError      |-> {"TerminalError", "Exception"}]

IsInstance(cause, classes) == Hierarchy[cause] \cap classes # {}

_WORKER_EXC   == {"BrokenResourceError", "ConnectionFailed"}
SSH_TRANSIENT == {"ConnectionLost", "DisconnectError", "ChannelOpenError"}
_SSH_DENIED   == {"PermissionDenied"}
_SSH_PROTOCOL == {"ProtocolError"}
SSH_TERMINAL  == _SSH_DENIED \cup _SSH_PROTOCOL

(* Faulty variant: the base class of every disconnect is tried first.       *)
ClassifyTransientFirst ==
  << <<{"TimeoutError"}, "deadline">>, <<_WORKER_EXC, "resource">>,
     <<SSH_TRANSIENT, "resource">>, <<_SSH_DENIED, "api">>,
     <<_SSH_PROTOCOL, "boundary">>, <<{"HTTPStatusError"}, "wire">>,
     <<{"Exception"}, "boundary">> >>

(* The rows are tried in order and match subclasses too.                    *)
CLASSIFY ==
  << <<{"TimeoutError"}, "deadline">>,
     <<_WORKER_EXC, "resource">>,
     <<{"DecodeError"}, "boundary">>,
     <<{"HintViolation"}, "api">>,
     <<{"ImportError"}, "import_">>,
     <<{"HTTPStatusError"}, "wire">>,
     <<{"ProcessError", "SFTPError"}, "boundary">>,
     <<_SSH_DENIED, "api">>,
     <<_SSH_PROTOCOL, "boundary">>,
     <<SSH_TRANSIENT, "resource">>,
     <<{"OSError"}, "boundary">>,
     <<{"Exception"}, "boundary">> >>

(* The first row that matches; the last one matches every exception.        *)
of(cause) ==
  LET rows == {i \in DOMAIN CLASSIFY : IsInstance(cause, CLASSIFY[i][1])}
      first == CHOOSE i \in rows : \A j \in rows : i <= j
  IN CLASSIFY[first][2]

_convert(cause) == <<of(cause)>>

-------------------------------------------------------------------------------
(* What a retry class repeats: the exceptions its target admits, and, for   *)
(* a lane, the rails whose fault has one of its tags.                       *)
RetryClass == {"db", "http", "proc"}

Target(cls, cause) ==
  CASE cls = "db"   -> IsInstance(cause, {"pg8000.Error", "OSError"})
    [] cls = "http" -> /\ ~IsInstance(cause, SSH_TERMINAL)
                       /\ IsInstance(cause, SSH_TRANSIENT \cup
                            {"ConnectError", "RemoteProtocolError", "OSError"})
    [] cls = "proc" -> IsInstance(cause, {"OSError"})

RAIL_RETRY_TAGS ==
  [db |-> {"resource", "deadline"}, http |-> {"resource", "deadline", "wire"},
   proc |-> {"resource", "deadline"}]

recoverable(fault, codes) == \E i \in DOMAIN fault : fault[i] \in codes

-------------------------------------------------------------------------------
(* traversed: ABORT binds, ACCUMULATE combines, PARTITION keeps both.       *)
(* Faulty variant: an aggregate takes no further member.                    *)
CombineSaturating(left, right) == IF Len(left) > 1 THEN left ELSE left \o right

combine(left, right) == left \o right

IsFault(rail) == rail # "ok"

Ok(values)   == [tag |-> "ok", values |-> values, fault |-> <<>>]
Error(fault) == [tag |-> "error", values |-> <<>>, fault |-> fault]

(* The left fold of a block.                                                *)
folded(Step(_, _), seed, block) ==
  LET done[n \in 0 .. Len(block)] ==
        IF n = 0 THEN seed ELSE Step(done[n - 1], block[n])
  IN done[Len(block)]

(* One more rail: its value is chosen, its fault is, or the fold is bound to it. *)
valued(acc, rail)  == IF IsFault(rail) THEN acc ELSE Append(acc, rail)
faulted(acc, rail) == IF IsFault(rail) THEN Append(acc, _convert(rail)) ELSE acc

bound(acc, rail) ==
  IF acc.tag = "error" THEN acc
  ELSE IF IsFault(rail) THEN Error(_convert(rail))
  ELSE Ok(Append(acc.values, rail))

Values(rails)   == folded(valued, <<>>, rails)
Faults(rails)   == folded(faulted, <<>>, rails)
Aborting(rails) == folded(bound, Ok(<<>>), rails)

Accumulating(rails) ==
  LET faults == Faults(rails)
  IN IF faults = <<>> THEN Ok(Values(rails))
     ELSE Error(folded(combine, Head(faults), Tail(faults)))
================================================================================
