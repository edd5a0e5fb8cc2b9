CONSTANTS
  q1 = q1  q2 = q2
  Query = {q1, q2}
  IPv6 = {"b1", "b2"}
  Question <- AllQuestions
  Files <- AllFiles
SPECIFICATION FairSpec
\* TypeOK is a conjunct of QInv.
INVARIANTS AnsweredOnce AnswersAgree DeployedResolve RightServers QInv
PROPERTY ComesToAnswer
