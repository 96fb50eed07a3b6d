SPECIFICATION SaSpec
INVARIANTS SaTypeOK AnswerCounts
PROPERTY Resolves
