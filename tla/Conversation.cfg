SPECIFICATION Spec
CONSTANTS
    MaxTurns = 2
    Answers <- FourAnswers
    NativeAnswers <- ThreeNativeAnswers
    Results <- OneOfEach
    Deliveries <- TwoDeliveries
    None = None
INVARIANTS
    ConversationReplayed
    ChatAnswersStayWhole
    BindingFaithful
\* The conversation ends at the bound.
CHECK_DEADLOCK FALSE
