SPECIFICATION FairSpec
CONSTANTS Texts <- SomeTexts
INVARIANTS CommentsNest LinesCounted TreeRight ErrorsPrompt OperandsInOrder
PROPERTIES Terminates
