------------------------------ MODULE MCBookFeed ------------------------------
EXTENDS BookFeed, MCVenue
===============================================================================
