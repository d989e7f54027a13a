SPECIFICATION WifiSpec
CONSTANT MaxEvents = 2
PROPERTY TimeoutMeansNoAddress
