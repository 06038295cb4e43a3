------------------------------ MODULE MCClient ------------------------------
(* A small client: two threads, two connections, every kind of setting.     *)
EXTENDS Client

CONSTANTS t1, t2

Plain == [keep_alive |-> TRUE, follow |-> FALSE, digest |-> FALSE, ssl |-> FALSE,
          mbedtls |-> FALSE, proxy |-> FALSE, compress |-> FALSE]

Following   == [Plain EXCEPT !.follow = TRUE]
Challenged  == [Plain EXCEPT !.digest = TRUE, !.follow = TRUE]
Secure      == [Plain EXCEPT !.ssl = TRUE]
MbedTls     == [Secure EXCEPT !.mbedtls = TRUE]
Tunnelled   == [Plain EXCEPT !.ssl = TRUE, !.proxy = TRUE]
Uploading   == [Plain EXCEPT !.compress = TRUE]
OneShot     == [Plain EXCEPT !.keep_alive = FALSE]

AllSettings == {Following, Challenged, Secure, MbedTls, Tunnelled, Uploading, OneShot}

\* Each setting meets the requests and answers that it treats in a way of
\* its own.
SomeRequests(s) ==
    CASE s = Uploading -> {r \in PostRequests : r.upload = "provider"}
      [] s = Challenged -> {r \in PatchRequests : r.upload = "bytes" /\ ~r.expect}
      [] s = OneShot -> HeadRequests \cup OptionsRequests
                        \cup {r \in DeleteRequests : r.upload = "none" /\ ~r.expect}
                        \cup {r \in PutRequests : r.upload = "chunked" /\ ~r.expect}
      [] OTHER -> GetRequests

SomeStatuses(s) ==
    CASE s = Following -> {"ok", "redirect", "elsewhere", "notmodified"}
      [] s = Challenged -> {"redirect", "seeother", "auth"}
      [] OTHER -> {"ok"}
=============================================================================
