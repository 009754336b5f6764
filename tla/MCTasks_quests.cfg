SPECIFICATION Spec
CONSTANTS
    r1 = r1
    r2 = r2
    first_trade = first_trade
    first_read = first_read
    onboarding_complete = onboarding_complete
    daily_trade_1 = daily_trade_1
    daily_checkin = daily_checkin
    daily_all_4 = daily_all_4
    streak_2 = streak_2
    contest_top10 = contest_top10
    quiz = quiz
    trade = trade
    read = read
    Request <- TwoRequests
    Task <- Tasks
    Daily <- DailyTasks
    Category <- Categories
    Target <- Targets
    Reward <- Rewards
    Event <- TwoEvents
    CodesOf <- Codes
    OnboardingMeta = onboarding_complete
    DailyMeta = daily_all_4
    CheckinTask = daily_checkin
    RankedTask = contest_top10
    Challenge <- OneChallenge
    MaxScore = 2
    MaxRequests = 3
    MaxWrites = 1
    MaxDay = 3
SYMMETRY Symmetry
CHECK_DEADLOCK FALSE
INVARIANTS MetaDeserved StreakHonest
PROPERTIES CompletionSticks PaidOnce
