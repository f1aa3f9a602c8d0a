SPECIFICATION FairSpec
CONSTANT None = None
CHECK_DEADLOCK FALSE
PROPERTIES SubagentsAnswer AnnouncementsAreSent WakesAreServed TurnsEnd ChannelsServe ShutdownEnds UpdatesAreTaken
