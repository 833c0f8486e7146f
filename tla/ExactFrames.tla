----------------------------- MODULE ExactFrames -----------------------------
(***************************************************************************)
(* What an external-host session promises the presenting game: one request *)
(* at a time, and what reaches the screen for a frame is the answer to the *)
(* request made for that frame.  A request that is not answered in time is *)
(* kept until it is; only a failed service may lose one.                   *)
(***************************************************************************)
EXTENDS Naturals

CONSTANT MaxPresents

VARIABLES
  request,   \* the frame asked for and not yet given up, 0 if none
  answered,  \* whether the outstanding request has its answer
  accepted,  \* the last frame whose answer was accepted for compositing
  screen,    \* the last frame composited, and the frame its image is of
  failed     \* whether the service has failed

vars == <<request, answered, accepted, screen, failed>>

Init ==
  /\ request = 0 /\ answered = FALSE /\ accepted = 0
  /\ screen = <<0, 0>> /\ failed = FALSE

Request(n) ==
  /\ request = 0 /\ n > accepted
  /\ request' = n /\ answered' = FALSE
  /\ UNCHANGED <<accepted, screen, failed>>

Answer ==
  /\ request # 0 /\ ~answered
  /\ answered' = TRUE
  /\ UNCHANGED <<request, accepted, screen, failed>>

\* The answer is used for the frame that asked, if that frame still waits, ...
Accept ==
  /\ answered
  /\ request' = 0 /\ answered' = FALSE /\ accepted' = request
  /\ UNCHANGED <<screen, failed>>

\* ... and thrown away otherwise.
Discard ==
  /\ answered
  /\ request' = 0 /\ answered' = FALSE
  /\ UNCHANGED <<accepted, screen, failed>>

Composite ==
  /\ accepted # 0
  /\ screen' = <<accepted, accepted>>
  /\ UNCHANGED <<request, answered, accepted, failed>>

\* The service fails, or comes back after a failure.
FailOrRecover ==
  /\ failed' = ~failed
  /\ UNCHANGED <<request, answered, accepted, screen>>

Lose ==
  /\ failed /\ request # 0
  /\ request' = 0 /\ answered' = FALSE
  /\ UNCHANGED <<accepted, screen, failed>>

Next ==
  \/ \E n \in 1..MaxPresents : Request(n)
  \/ Answer \/ Accept \/ Discard \/ Composite \/ FailOrRecover \/ Lose

Spec == Init /\ [][Next]_vars

=============================================================================
