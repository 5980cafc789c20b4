SPECIFICATION Spec
INVARIANTS RewritingIsSound ConditionsCompare TreeIsWhole ConditionsAsWritten RecursionIsReported
