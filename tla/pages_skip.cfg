\* Pages sorted by activity and cut by _id skip chats.
SPECIFICATION PagesSpec
CONSTANTS
    Ids = {1, 2, 3}
    Times = {1, 2}
    PageMax = 1
INVARIANT EveryChatListed
