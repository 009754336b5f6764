-------------------------------- MODULE MCTasks --------------------------------
EXTENDS Tasks, TLC

CONSTANTS r1, r2, first_trade, first_read, onboarding_complete, daily_trade_1,
          daily_checkin, daily_all_4, streak_2, contest_top10, quiz, trade, read

TwoRequests == {r1, r2}
Tasks == {first_trade, first_read, onboarding_complete, daily_trade_1,
          daily_checkin, daily_all_4, streak_2, contest_top10}
DailyTasks == {daily_trade_1, daily_checkin, daily_all_4}
Categories == [t \in Tasks |->
    CASE t \in DailyTasks -> "daily"
      [] t = streak_2 -> "streak"
      [] t = contest_top10 -> "contest"
      [] OTHER -> "onboarding"]
Targets == [t \in Tasks |-> IF t \in {streak_2, first_trade} THEN 2 ELSE 1]
OneChallenge == {quiz}
Rewards == [t \in Tasks \cup OneChallenge |-> IF t = quiz THEN 2 ELSE 1]
TwoEvents == {trade, read}
Codes == trade :> <<first_trade, daily_trade_1>> @@ read :> <<first_read>>

Symmetry == Permutations(TwoRequests)
=============================================================================
