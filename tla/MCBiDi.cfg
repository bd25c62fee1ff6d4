SPECIFICATION Spec
CONSTANTS
    c1 = c1
    c2 = c2
    Contexts = {c1, c2}
    NoContext = NoContext
    Realms = {1, 2, 3}
    Tasks = {1, 2}
    Elements = {a, b}
    Text = Text
    EmptyText = EmptyText
    Number = Number
    NaN = NaN
    NoValue = NoValue
    Depth = 2
    Scenarios <- AllScenarios
    MaxLength = 2
    MaxChanges = 2
INVARIANTS TypeOK RealmEndsWhereItBegan AnswersTrue ValuesSurvive
CHECK_DEADLOCK FALSE
