------------------------------ MODULE Citizen -------------------------------
(***************************************************************************)
(* A citizen's account: auth-service, levels-service and social-service    *)
(* composed.  auth-service and levels-service write the same row of        *)
(* user_logs, and a callback, a logout and a request of account security   *)
(* write the same phone.                                                   *)
(***************************************************************************)
EXTENDS Levels, Sessions, Security, Social

vars == <<requests, accounts, levels, rephoned, secrets, social>>

TypeOK ==
  /\ CitizensTypeOK /\ LevelsTypeOK /\ SessionsTypeOK /\ SecurityTypeOK /\ SocialTypeOK
  /\ task \in [Tasks -> {[pc |-> "idle"]} \union LevelsTask \union SessionsTask
                          \union SecurityTask \union SocialTask]
  /\ overlap \in [Users -> SUBSET {"deposit", "trade", "activity", "claim", "callback",
                                   "logout", "secure", "verify", "answer", "follow"}]

Init == CitizensInit /\ LevelsInit /\ SessionsInit /\ SecurityInit /\ SocialInit

(* A statement of t fails and the handler gives up, or the process stops:  *)
(* nothing is undone.                                                      *)
Fails(t) ==
  /\ ~ At(t, "idle")
  /\ Return(t) /\ Stumble
  /\ UNCHANGED <<accounts, levels, rephoned, secrets, social>>

Next ==
  \/ "levels" \in group /\ LevelsNext /\ UNCHANGED <<rephoned, secrets, social>>
  \/ "sessions" \in group /\ SessionsNext /\ UNCHANGED <<levels, secrets, social>>
  \/ "security" \in group /\ SecurityNext /\ UNCHANGED <<levels, rephoned, social>>
  \/ "social" \in group /\ SocialNext /\ UNCHANGED <<levels, rephoned, secrets>>
  \/ \E t \in Tasks : Fails(t)

Spec == Init /\ [][Next]_vars

-----------------------------------------------------------------------------
(* The phone that is marked as verified is one that an accepted code was   *)
(* sent to.  Requests that overlap can mark another one, and so can one    *)
(* that fails between saving a phone and replacing the code.  A login in   *)
(* between writes OAuth's phone, which the code does not know of.          *)
VerifiedPhoneHadCode ==
  \A u \in Users :
    verified[u] /\ overlap[u] = {} /\ faults = 0 /\ u \notin rephoned =>
      \E c \in CodesOf(u) : codes[c].accepted > 0 /\ codes[c].phone = phone[u]

(* auth-service sets a user up once and completely, and counts the hours   *)
(* of all sessions.                                                        *)
AccountInv == TypeOK /\ RegisteredOnce /\ MissingMeansFailure /\ HoursAreSummed

(* user_logs, users.score, the levels and their prizes follow each other,  *)
(* although auth-service and levels-service both write user_logs.          *)
LevelInv ==
  /\ DepositsAreKept /\ ScoreIsCurrent
  /\ LevelIsReached /\ LevelsAreAttachedOnce
  /\ PrizesAreBounded /\ PrizesAreRecorded

(* Codes, the account they unlock and the phone they verify belong         *)
(* together.                                                               *)
SecurityInv == AccountsAreBounded /\ SentCodeIsAccepted /\ VerifiedPhoneHadCode

(* Answers, their prizes and the participants agree; follows are unique    *)
(* but for requests that overlap.                                          *)
SocialInv ==
  AttemptsAreBounded /\ PrizesAreForAnswers /\ ParticipantsAreAnswers /\ FollowsAreBounded
=============================================================================
