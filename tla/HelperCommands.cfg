SPECIFICATION CommandSpec
CONSTANTS
  Rate = 500
  Requested = 3
  Times = {0, 2, 3, 4, 6}
INVARIANT AnswerSound
INVARIANT SamplesAccounted
PROPERTY CommandAnswers
