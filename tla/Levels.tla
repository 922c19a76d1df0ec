------------------------------- MODULE Levels -------------------------------
(***************************************************************************)
(* levels-service: ActivityService and LevelService.ClaimPrize.  A user's  *)
(* score is the sum of what user_logs counts; it earns levels, and a level *)
(* earns a prize, paid in commercial-service one asset at a time.          *)
(***************************************************************************)
EXTENDS Citizens

CONSTANTS LevelIds,
          Threshold,  \* Threshold[l]: the score of level l
          Assets,     \* bound: a prize has this many assets (six in the code)
          Amounts     \* amounts of deposits, in thousands

(* There is a level: a request that is given none holds any. *)
ASSUME LevelsAssumption ==
  /\ IsFiniteSet(LevelIds) /\ LevelIds # {}
  /\ Threshold \in [LevelIds -> Nat] /\ IsInjective(Threshold)
  /\ Assets \in Nat \ {0} /\ Amounts \subseteq Nat
  /\ \A a \in Amounts : a % 10 # 5    \* see Points

VARIABLES score,      \* users.score
          traded,     \* traded[u]: u's significant rows of trades
          attached,   \* attached[u][l]: rows of level_user
          received,   \* received[u][l]: rows of recieved_level_prizes
          paid,       \* paid[u][l][a]: how often asset a of l's prize was credited
          deposited   \* history: points that IncrementDeposit added

levels == <<score, traded, attached, received, paid, deposited>>

LevelsTask ==
  [pc: {"deposit", "count", "trades", "calculate", "score", "level", "attach",
        "received", "pay", "record"},
   op: {"deposit", "trade", "activity", "claim"}, user: Users,
   level: LevelIds, points: Nat, asset: 1..Assets]

LevelsTypeOK ==
  /\ score \in [Users -> Nat] /\ traded \in [Users -> Nat] /\ deposited \in [Users -> Nat]
  /\ attached \in [Users -> [LevelIds -> Nat]]
  /\ received \in [Users -> [LevelIds -> Nat]]
  /\ paid \in [Users -> [LevelIds -> [1..Assets -> Nat]]]

LevelsInit ==
  /\ score = [u \in Users |-> 0] /\ traded = [u \in Users |-> 0]
  /\ deposited = [u \in Users |-> 0]
  /\ attached = [u \in Users |-> [l \in LevelIds |-> 0]]
  /\ received = [u \in Users |-> [l \in LevelIds |-> 0]]
  /\ paid = [u \in Users |-> [l \in LevelIds |-> [a \in 1..Assets |-> 0]]]

-----------------------------------------------------------------------------
Begin(t, pc, op, u, l, n) ==
  Start(t, [pc |-> pc, op |-> op, user |-> u, level |-> l, points |-> n, asset |-> 1])

(* A deposit of a thousands is a tenth of a point for each; the bigint     *)
(* column rounds the sum that IncrementDeposit makes.  A tie is rounded    *)
(* to the even neighbour, which depends on the sum: ties are left out.     *)
Points(a) == (a + 5) \div 10

LevelsRequest(t) ==
  /\ \E u \in registered : LET l == CHOOSE x \in LevelIds : TRUE IN
       \/ \E a \in Amounts : Begin(t, "deposit", "deposit", u, l, Points(a))
       \/ Begin(t, "count", "trade", u, l, 0)
       \/ Begin(t, "calculate", "activity", u, l, 0)
       \/ \E c \in LevelIds : Begin(t, "received", "claim", u, c, 0)
  /\ UNCHANGED <<accounts, levels>>

(* Other services record a significant trade of u. *)
Trade(u) ==
  /\ Arrives
  /\ traded' = [traded EXCEPT ![u] = @ + 1]
  /\ UNCHANGED <<task, faults, group, overlap, accounts, score, attached, received, paid, deposited>>

(* LogActivity: a session starts. *)
LogActivity(u) ==
  /\ Arrives
  /\ sessions' = [sessions EXCEPT ![u] = Append(@, 0)]
  /\ UNCHANGED <<task, faults, group, overlap, registered, phone, verified, made, log, levels>>

(* RecordDeposit.  Without a row the statement updates nothing. *)
ForgetScore(t) ==
  LET k == task[t] IN
  /\ At(t, "deposit")
  /\ log' = [log EXCEPT ![k.user].deposit = @ + k.points]
  /\ deposited' = [deposited EXCEPT ![k.user] = @ + k.points]
  /\ Return(t) /\ Serve
  /\ UNCHANGED <<registered, phone, verified, made, sessions, score, traded, attached, received, paid>>

IncrementDeposit(t) ==
  LET k == task[t] IN
  /\ At(t, "deposit")
  /\ IF HasLog(k.user)
       THEN /\ log' = [log EXCEPT ![k.user].deposit = @ + k.points]
            /\ deposited' = [deposited EXCEPT ![k.user] = @ + k.points]
       ELSE UNCHANGED <<log, deposited>>
  /\ Goto(t, "calculate") /\ Serve
  /\ UNCHANGED <<registered, phone, verified, made, sessions, score, traded, attached, received, paid>>

(* RecordTrade: the trades are counted, then two points each are written. *)
GetSignificantTradeCount(t) ==
  /\ At(t, "count")
  /\ Step(t, [task[t] EXCEPT !.pc = "trades", !.points = traded[task[t].user]])
  /\ Serve /\ UNCHANGED <<accounts, levels>>

UpdateTransactionsCount(t) ==
  LET k == task[t] IN
  /\ At(t, "trades")
  /\ log' = IF HasLog(k.user) THEN [log EXCEPT ![k.user].trades = 2 * k.points] ELSE log
  /\ Goto(t, "calculate") /\ Serve
  /\ UNCHANGED <<registered, phone, verified, made, sessions, levels>>

(* UpdateActivityScore, which ends the two above: without a row there is   *)
(* nothing to score.                                                       *)
CalculateScore(t) ==
  LET k == task[t] IN
  /\ At(t, "calculate")
  /\ IF HasLog(k.user) THEN Step(t, [k EXCEPT !.pc = "score", !.points = Total(log[k.user])])
     ELSE Return(t)
  /\ Serve /\ UNCHANGED <<accounts, levels>>

UpdateScore(t) ==
  LET k == task[t] IN
  /\ At(t, "score")
  /\ log' = [log EXCEPT ![k.user].score = k.points]
  /\ score' = [score EXCEPT ![k.user] = k.points]
  /\ Goto(t, "level") /\ Serve
  /\ UNCHANGED <<registered, phone, verified, made, sessions, traded, attached, received, paid, deposited>>

(* The highest level that the score reaches and the user does not have. *)
GetNextLevelForScore(t) ==
  LET k == task[t]
      open == {l \in LevelIds : Threshold[l] <= k.points /\ attached[k.user][l] = 0}
  IN
  /\ At(t, "level")
  /\ \/ open = {} /\ Return(t)
     \/ \E l \in open : /\ \A m \in open : Threshold[m] <= Threshold[l]
                        /\ Step(t, [k EXCEPT !.pc = "attach", !.level = l])
  /\ Serve /\ UNCHANGED <<accounts, levels>>

AttachLevelToUser(t) ==
  LET k == task[t] IN
  /\ At(t, "attach")
  /\ attached' = [attached EXCEPT ![k.user][k.level] = @ + 1]
  /\ Goto(t, "received") /\ Serve
  /\ UNCHANGED <<accounts, score, traded, received, paid, deposited>>

(* ClaimPrize begins here, whether or not the user has the level.  An      *)
(* error counts as "not received" after a level was attached.              *)
HasUserReceivedPrize(t) ==
  LET k == task[t] IN
  /\ At(t, "received")
  /\ \/ received[k.user][k.level] = 0 /\ Goto(t, "pay") /\ Serve
     \/ received[k.user][k.level] > 0 /\ Return(t) /\ Serve
     \/ k.op # "claim" /\ Goto(t, "pay") /\ Stumble
  /\ UNCHANGED <<accounts, levels>>

(* One AddBalance of applyLevelPrizeBalances.  The call may have been      *)
(* executed though it returns an error, which ends the request.            *)
AddPrize(t) ==
  LET k == task[t] IN
  /\ At(t, "pay")
  /\ paid' = [paid EXCEPT ![k.user][k.level][k.asset] = @ + 1]
  /\ \/ k.asset < Assets /\ Step(t, [k EXCEPT !.asset = @ + 1]) /\ Serve
     \/ k.asset = Assets /\ Goto(t, "record") /\ Serve
     \/ Return(t) /\ Stumble
  /\ UNCHANGED <<accounts, score, traded, attached, received, deposited>>

RecordReceivedPrize(t) ==
  LET k == task[t] IN
  /\ At(t, "record")
  /\ received' = [received EXCEPT ![k.user][k.level] = @ + 1]
  /\ Return(t) /\ Serve
  /\ UNCHANGED <<accounts, score, traded, attached, paid, deposited>>

LevelsStep(t) ==
  \/ LevelsRequest(t)
  \/ IncrementDeposit(t)
  \/ GetSignificantTradeCount(t)
  \/ UpdateTransactionsCount(t)
  \/ CalculateScore(t)
  \/ UpdateScore(t)
  \/ GetNextLevelForScore(t)
  \/ AttachLevelToUser(t)
  \/ HasUserReceivedPrize(t)
  \/ AddPrize(t)
  \/ RecordReceivedPrize(t)

LevelsNext ==
  \/ \E t \in Tasks : LevelsStep(t)
  \/ \E u \in registered : Trade(u) \/ LogActivity(u)

-----------------------------------------------------------------------------
(* deposit_amount holds what the deposits added, though auth-service       *)
(* writes the whole row back when a user logs out.  Only a logout that     *)
(* overlaps another request loses some of it, and nothing adds to it.      *)
DepositsAreKept ==
  \A u \in Users :
    /\ log[u].deposit <= deposited[u]
    /\ log[u].deposit = deposited[u] \/ "logout" \in overlap[u]

(* Between requests that did not overlap or fail, user_logs.score is the   *)
(* sum of its counters, and users.score the same or behind: auth-service   *)
(* scores the hours of a session in user_logs alone.                       *)
ScoreIsCurrent ==
  \A u \in Users :
    overlap[u] = {} /\ faults = 0 /\ Busy(u) = {} =>
      /\ log[u].score = Total(log[u])
      /\ score[u] \in log[u].score - log[u].hours .. log[u].score

(* However the requests interleave, once they are done a user has the      *)
(* highest level that users.score reaches, unless one of them failed.      *)
LevelIsReached ==
  \A u \in Users :
    LET reached == {l \in LevelIds : Threshold[l] <= score[u]} IN
    faults = 0 /\ Busy(u) = {} /\ score[u] > 0 =>
      \A l \in reached : (\A m \in reached : Threshold[m] <= Threshold[l]) => attached[u][l] > 0

(* No key of level_user stops a second row: the check comes before the     *)
(* insert, so only requests that overlap attach a level more than once.    *)
LevelsAreAttachedOnce ==
  \A u \in Users, l \in LevelIds : attached[u][l] <= Cardinality(Tasks)

(* A prize is recorded as often as requests that overlap, or failed to     *)
(* read the record, may record it, and never again.                        *)
PrizesAreBounded ==
  \A u \in Users, l \in LevelIds : received[u][l] <= Cardinality(Tasks) + faults

(* Credits that no record accounts for are those of a request under way or *)
(* of one that failed after it: nothing takes them back, and the next      *)
(* claim pays them again.                                                  *)
PrizesAreRecorded ==
  \A u \in Users, l \in LevelIds, a \in 1..Assets :
    paid[u][l][a] <= received[u][l] + faults
      + Cardinality({t \in Tasks : /\ task[t].pc \in {"pay", "record"}
                                   /\ task[t].user = u /\ task[t].level = l})
=============================================================================
