SPECIFICATION FairSpec
CONSTANTS
 Web = {"web"}
 Http = {"tg"}
 Calls = {"s1","s2"}
 ChannelOf <- MCChannelOf
 Chunks = 2
 Capacity = 1
 MaxFaults = 1
 MaxLogouts = 1
 None = None


PROPERTY FailedIsRetried
