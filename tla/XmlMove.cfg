SPECIFICATION XmlEditSpec
CONSTANTS XmlMaxNodes = 3
XmlMaxTokens = 0
XmlMaxDepth = 4
XmlMaxLost = 0
XmlTags = {}
PROPERTY MovedWhereAsked
CHECK_DEADLOCK FALSE
