SPECIFICATION Spec
CONSTANTS
  Sessions = {s1}
  Paths = {"hello", "other"}
  Methods = {"get", "post"}
  MaxRoutes = 3
INVARIANTS TypeOK FirstRouteAnswers StatusTells EchoMatches
