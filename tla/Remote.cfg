SPECIFICATION SystemSpec
CONSTANTS
  Comment = {1, 2}
  MaxTimers = 2
  MaxQueue = 1
  MaxFailures = 1
  MaxExits = 1
  MaxRetries = 2
  MaxCommandFailures = 2
  MaxTask = 2
  Window = 2
  MaxRequest = 2
  LastTick = 4
  MaxSecret = 2
  Agent = {"a1"}
  Model = {"m1"}
  LastProxy = 2
  Source = "openai"
  MaxEvent = 3
  MaxPing = 2
  Provider = {"openai", "ollama", "gemini"}
  MaxMessage = 6
  MaxCall = 4
  Command = {"c1", "c2"}
  Service = {"s1", "s2"}
  MaxChange = 2
  LastQuestion = 2
  Waiter = {"m1", "m2"}
  MaxUpdate = 2
  MaxSettings = 1
  Part = {"monitor", "task", "webhook", "proxy", "streams", "messages", "models", "telegram"}
INVARIANTS HandledOnce AckedOnce WorkPreserved ReviewsAreSigned AnsweredAsMapped EventsInOrder MessagesKept SettingsKept AnswersAreKept
PROPERTIES StoppedIsQuiet RequestIsQueued
CHECK_DEADLOCK FALSE
