------------------------------- MODULE Social -------------------------------
(***************************************************************************)
(* social-service: ChallengeService.SubmitAnswer, which credits a correct  *)
(* answer's prize in commercial-service, and FollowService.  Views of a    *)
(* question are left out.                                                  *)
(***************************************************************************)
EXTENDS Citizens

CONSTANT Questions

ASSUME SocialAssumption == IsFiniteSet(Questions)

VARIABLES answers,       \* answers[u][q]: rows of user_question_answers
          correct,       \* correct[u][q]: those with a correct answer
          participants,  \* participants[q]: questions.participants
          prizes,        \* prizes[u][q]: how often q's prize was credited to u
          follows        \* follows[u][v]: rows of follows by which u follows v

social == <<answers, correct, participants, prizes, follows>>

SocialTask ==
  [pc: {"answered", "answer", "participants", "prize"}, op: {"answer"}, user: Users,
   question: Questions, right: BOOLEAN]
  \union
  [pc: {"exists", "follow"}, op: {"follow"}, user: Users, target: Users]

SocialTypeOK ==
  /\ answers \in [Users -> [Questions -> Nat]] /\ correct \in [Users -> [Questions -> Nat]]
  /\ prizes \in [Users -> [Questions -> Nat]]
  /\ participants \in [Questions -> Nat]
  /\ follows \in [Users -> [Users -> Nat]]

SocialInit ==
  /\ answers = [u \in Users |-> [q \in Questions |-> 0]]
  /\ correct = answers /\ prizes = answers
  /\ participants = [q \in Questions |-> 0]
  /\ follows = [u \in Users |-> [v \in Users |-> 0]]

-----------------------------------------------------------------------------
(* SubmitAnswer of an answer that belongs to the question. *)
SubmitAnswer(t, u, q, right) ==
  /\ Start(t, [pc |-> "answered", op |-> "answer", user |-> u, question |-> q, right |-> right])
  /\ UNCHANGED <<accounts, social>>

WrongMayRetry(t) ==
  LET k == task[t] IN
  /\ At(t, "answered")
  /\ IF correct[k.user][k.question] > 0 THEN Return(t) ELSE Goto(t, "answer")
  /\ Serve /\ UNCHANGED <<accounts, social>>

HasUserAnswered(t) ==
  LET k == task[t] IN
  /\ At(t, "answered")
  /\ IF answers[k.user][k.question] > 0 THEN Return(t) ELSE Goto(t, "answer")
  /\ Serve /\ UNCHANGED <<accounts, social>>

CreateUserAnswer(t) ==
  LET k == task[t] IN
  /\ At(t, "answer")
  /\ answers' = [answers EXCEPT ![k.user][k.question] = @ + 1]
  /\ correct' = IF k.right THEN [correct EXCEPT ![k.user][k.question] = @ + 1] ELSE correct
  /\ Goto(t, "participants") /\ Serve
  /\ UNCHANGED <<accounts, participants, prizes, follows>>

(* Errors of these two are printed and ignored. *)
IncrementQuestionParticipants(t) ==
  LET k == task[t] IN
  /\ At(t, "participants")
  /\ \/ participants' = [participants EXCEPT ![k.question] = @ + 1] /\ Serve
     \/ UNCHANGED participants /\ Stumble
  /\ IF k.right THEN Goto(t, "prize") ELSE Return(t)
  /\ UNCHANGED <<accounts, answers, correct, prizes, follows>>

AddChallengePrize(t) ==
  LET k == task[t] IN
  /\ At(t, "prize")
  /\ \/ prizes' = [prizes EXCEPT ![k.user][k.question] = @ + 1] /\ Serve
     \/ UNCHANGED prizes /\ Stumble
  /\ Return(t)
  /\ UNCHANGED <<accounts, answers, correct, participants, follows>>

(* Follow.  CanFollow asks auth-service, and may refuse.  What follows the *)
(* insert, RecordFollower of levels-service, changes nothing.              *)
Follow(t, u, v) ==
  /\ u # v
  /\ Start(t, [pc |-> "exists", op |-> "follow", user |-> u, target |-> v])
  /\ UNCHANGED <<accounts, social>>

ExistsFollow(t) ==
  LET k == task[t] IN
  /\ At(t, "exists")
  /\ \/ Return(t)
     \/ follows[k.user][k.target] = 0 /\ Goto(t, "follow")
  /\ Serve /\ UNCHANGED <<accounts, social>>

CreateFollow(t) ==
  LET k == task[t] IN
  /\ At(t, "follow")
  /\ follows' = [follows EXCEPT ![k.user][k.target] = @ + 1]
  /\ Return(t) /\ Serve
  /\ UNCHANGED <<accounts, answers, correct, participants, prizes>>

(* Unfollow by u, or Remove by v: all rows are deleted. *)
Unfollow(u, v) ==
  /\ u # v /\ Arrives
  /\ follows' = [follows EXCEPT ![u][v] = 0]
  /\ UNCHANGED <<task, faults, group, overlap, accounts, answers, correct, participants, prizes>>

SocialNext ==
  \/ \E t \in Tasks :
       \/ \E u \in registered, q \in Questions, right \in BOOLEAN : SubmitAnswer(t, u, q, right)
       \/ HasUserAnswered(t)
       \/ CreateUserAnswer(t)
       \/ IncrementQuestionParticipants(t)
       \/ AddChallengePrize(t)
       \/ \E u \in registered, v \in registered : Follow(t, u, v)
       \/ ExistsFollow(t)
       \/ CreateFollow(t)
  \/ \E u \in registered, v \in registered : Unfollow(u, v)

-----------------------------------------------------------------------------
Answering(u, q, pcs) == Cardinality({t \in Busy(u) : /\ task[t].pc \in pcs
                                                      /\ task[t].question = q})

(* "A user gets exactly one attempt per question, regardless of            *)
(* correctness" (challenge_service.go): the check comes before the insert, *)
(* so only attempts that overlap are both accepted.                        *)
AttemptsAreBounded ==
  \A u \in Users, q \in Questions : answers[u][q] <= Cardinality(Tasks)

(* A prize is credited for a recorded correct answer, once each, and a     *)
(* recorded one is left unpaid only by a failure: it is never paid later.  *)
PrizesAreForAnswers ==
  \A u \in Users, q \in Questions :
    LET due == correct[u][q] - prizes[u][q] IN
    /\ due >= 0
    /\ due <= faults + Answering(u, q, {"participants", "prize"})

(* participants counts each recorded answer once, but for failures. *)
ParticipantsAreAnswers ==
  \A q \in Questions :
    LET Sum(s)  == FoldFunction(+, 0, [u \in Users |-> s[u][q]])
        missing == Sum(answers) - participants[q]
    IN  /\ missing >= 0
        /\ missing <= faults + Cardinality({t \in Tasks : At(t, "participants") /\ task[t].question = q})

(* Only requests that overlap make a user follow another twice. *)
FollowsAreBounded ==
  \A u, v \in Users : follows[u][v] <= Cardinality(Tasks)
=============================================================================
